---- MODULE Spec2Model ----
(***************************************************************************)
(* A model of the SQL_Constructor query engine: the safety validator, the  *)
(* WHERE template builder, the parameter formatter, the execution          *)
(* orchestrator and the definition store behind the technician, admin and  *)
(* end-user views.                                                         *)
(*                                                                         *)
(* Text is modelled character by character: a Python str is a sequence of  *)
(* one-character strings, so that regular expressions, str.replace,        *)
(* str.upper and the `in` substring test are computed as the code computes *)
(* them.  Str turns a string literal into that sequence.  Python's None is *)
(* the value None below.                                                   *)
(***************************************************************************)
EXTENDS Integers, Sequences, FiniteSets, TLC

----------------------------------------------------------------------------
(* Characters and the str / re primitives the code uses.                   *)

\* the characters of a string literal
Str(literal) == <<>> \o literal

LowerSeq == Str("abcdefghijklmnopqrstuvwxyz")

UpperSeq == Str("ABCDEFGHIJKLMNOPQRSTUVWXYZ")

DigitSeq == Str("0123456789")

None == <<"None">>

IndexIn(seq, c) ==
    IF \E i \in 1..Len(seq) : seq[i] = c
    THEN CHOOSE i \in 1..Len(seq) : seq[i] = c
    ELSE 0

IsDigit(c) == IndexIn(DigitSeq, c) # 0

\* \s of the re module (the characters the fragments of this model contain)
IsSpace(c) == c \in {" ", "\n", "\t"}

\* \w of the re module
IsWordChar(c) ==
    IndexIn(LowerSeq, c) # 0 \/ IndexIn(UpperSeq, c) # 0 \/ IsDigit(c) \/ c = "_"

upper_char(c) ==
    LET i == IndexIn(LowerSeq, c) IN IF i = 0 THEN c ELSE UpperSeq[i]

lower_char(c) ==
    LET i == IndexIn(UpperSeq, c) IN IF i = 0 THEN c ELSE LowerSeq[i]

\* str.upper()
upper(s) == [i \in 1..Len(s) |-> upper_char(s[i])]

\* str.lower()
lower(s) == [i \in 1..Len(s) |-> lower_char(s[i])]

SetMin(S) == CHOOSE x \in S : \A y \in S : x <= y

\* s[i-1:j-1] with 1-based bounds: the characters i .. j-1
Slice(s, i, j) == SubSeq(s, i, j - 1)

\* the literal p occurs in s starting at index i
MatchAt(s, p, i) ==
    /\ i >= 1
    /\ i + Len(p) - 1 <= Len(s)
    /\ SubSeq(s, i, i + Len(p) - 1) = p

\* `p in s` for two strings
Contains(s, p) == \E i \in 1..(Len(s) - Len(p) + 1) : MatchAt(s, p, i)

\* str.startswith
startswith(s, p) == MatchAt(s, p, 1)

\* \b of the re module at the gap before index i (1 .. Len(s)+1)
WordAt(s, i) == i >= 1 /\ i <= Len(s) /\ IsWordChar(s[i])

Boundary(s, i) == WordAt(s, i - 1) # WordAt(s, i)

\* the start indices of the matches of \bp\b in s
WordMatches(s, p) ==
    {i \in 1..(Len(s) - Len(p) + 1) :
        MatchAt(s, p, i) /\ Boundary(s, i) /\ Boundary(s, i + Len(p))}

\* re.search(r'\bp\b', s, re.IGNORECASE).start(), as a 1-based index; 0 for no match
search_word_ic(s, p) ==
    LET m == WordMatches(upper(s), upper(p))
    IN  IF m = {} THEN 0 ELSE SetMin(m)

\* index of the first character at or after i that is not whitespace (Len(s)+1 if none)
RECURSIVE SkipSpace(_, _)
SkipSpace(s, i) ==
    IF i <= Len(s) /\ IsSpace(s[i]) THEN SkipSpace(s, i + 1) ELSE i

\* index of the first character at or after i that is not a digit
RECURSIVE SkipDigits(_, _)
SkipDigits(s, i) ==
    IF i <= Len(s) /\ IsDigit(s[i]) THEN SkipDigits(s, i + 1) ELSE i

\* index of the last character at or before i that is not whitespace (0 if none)
RECURSIVE SkipSpaceBack(_, _)
SkipSpaceBack(s, i) ==
    IF i >= 1 /\ IsSpace(s[i]) THEN SkipSpaceBack(s, i - 1) ELSE i

\* str.strip()
strip(s) == SubSeq(s, SkipSpace(s, 1), SkipSpaceBack(s, Len(s)))

\* re.sub(r'\s+', ' ', s)
RECURSIVE sub_spaces(_, _)
sub_spaces(s, i) ==
    IF i > Len(s) THEN <<>>
    ELSE IF IsSpace(s[i]) THEN <<" ">> \o sub_spaces(s, SkipSpace(s, i))
    ELSE <<s[i]>> \o sub_spaces(s, i + 1)

\* str.replace(old, new) from index i on: leftmost, non-overlapping, old not empty
RECURSIVE replace_from(_, _, _, _)
replace_from(s, old, new, i) ==
    IF i > Len(s) THEN <<>>
    ELSE IF MatchAt(s, old, i) THEN new \o replace_from(s, old, new, i + Len(old))
    ELSE <<s[i]>> \o replace_from(s, old, new, i + 1)

replace(s, old, new) == replace_from(s, old, new, 1)

\* "sep".join(parts)
RECURSIVE join(_, _)
join(sep, parts) ==
    IF parts = <<>> THEN <<>>
    ELSE IF Len(parts) = 1 THEN parts[1]
    ELSE parts[1] \o sep \o join(sep, Tail(parts))

\* int() of a run of decimal digits
RECURSIVE DigitsToInt(_)
DigitsToInt(d) ==
    IF d = <<>> THEN 0
    ELSE 10 * DigitsToInt(SubSeq(d, 1, Len(d) - 1)) + (IndexIn(DigitSeq, d[Len(d)]) - 1)

\* str() of a natural number
RECURSIVE IntToDigits(_)
IntToDigits(n) ==
    IF n < 10 THEN <<DigitSeq[n + 1]>>
    ELSE IntToDigits(n \div 10) \o <<DigitSeq[(n % 10) + 1]>>

----------------------------------------------------------------------------
(* models/parameter.py: QueryParameter.format_value.                       *)
(* A formatted value is [raised |-> TRUE] when the conversion raises       *)
(* ValueError, else [raised |-> FALSE, val |-> the literal or None].       *)

Quote == "'"

Raised == [raised |-> TRUE, val |-> None]

Returned(v) == [raised |-> FALSE, val |-> v]

\* the digits of a run in which single underscores may separate digits
\* (PEP 515, accepted by int() and float()); None when the run is malformed
RECURSIVE DigitRun(_, _)
DigitRun(s, i) ==
    IF i > Len(s) THEN <<>>
    ELSE IF IsDigit(s[i]) THEN
        LET rest == DigitRun(s, i + 1)
        IN  IF rest = None THEN None ELSE <<s[i]>> \o rest
    ELSE IF s[i] = "_" /\ i > 1 /\ IsDigit(s[i - 1]) /\ i < Len(s) /\ IsDigit(s[i + 1])
        THEN DigitRun(s, i + 1)
    ELSE None

\* a digit run without its leading zeros ("0" for zero)
RECURSIVE StripZerosLeft(_)
StripZerosLeft(d) ==
    IF Len(d) > 1 /\ d[1] = "0" THEN StripZerosLeft(Tail(d)) ELSE d

\* a digit run without its trailing zeros ("0" when nothing is left)
RECURSIVE StripZerosRight(_)
StripZerosRight(d) ==
    IF Len(d) > 1 /\ d[Len(d)] = "0" THEN StripZerosRight(SubSeq(d, 1, Len(d) - 1))
    ELSE d

HasSign(s) == s # <<>> /\ s[1] \in {"+", "-"}

Unsigned(s) == IF HasSign(s) THEN Tail(s) ELSE s

\* str(int(value)) for a str value
str_int(value) ==
    LET s    == strip(value)
        body == Unsigned(s)
        d    == IF body = <<>> THEN None ELSE DigitRun(body, 1)
    IN  IF d = None \/ d = <<>> THEN Raised
        ELSE LET n == StripZerosLeft(d)
             IN  Returned(IF s[1] = "-" /\ n # <<"0">> THEN <<"-">> \o n ELSE n)

\* str(float(value)) for a str value in plain decimal notation, or inf / nan
\* (values in exponent notation are not drawn by this model)
str_float(value) ==
    LET s     == strip(value)
        neg   == s # <<>> /\ s[1] = "-"
        body  == Unsigned(s)
        word  == lower(body)
        dots  == {i \in 1..Len(body) : body[i] = "."}
        dot   == IF dots = {} THEN Len(body) + 1 ELSE SetMin(dots)
        ipart == IF dot = 1 THEN <<>> ELSE DigitRun(SubSeq(body, 1, dot - 1), 1)
        fpart == IF dot >= Len(body) THEN <<>> ELSE DigitRun(SubSeq(body, dot + 1, Len(body)), 1)
        sign  == IF neg THEN <<"-">> ELSE <<>>
    IN  IF word \in {Str("inf"), Str("infinity")}
            THEN Returned(sign \o Str("inf"))
        ELSE IF word = Str("nan") THEN Returned(Str("nan"))
        ELSE IF Cardinality(dots) > 1 \/ ipart = None \/ fpart = None
                \/ (ipart = <<>> /\ fpart = <<>>)
            THEN Raised
        ELSE Returned(sign
                      \o StripZerosLeft(IF ipart = <<>> THEN <<"0">> ELSE ipart)
                      \o <<".">>
                      \o StripZerosRight(IF fpart = <<>> THEN <<"0">> ELSE fpart))

\* the raw values format_value takes for the boolean 1
BooleanTrue ==
    {Str("true"), <<"1">>, Str("True"), Str("si"), Str("Si")}

\* a formatter that wraps a text in quotes as it is
format_value_unescaped(tipo_dato, value) ==
    IF value = None \/ value = <<>> THEN Returned(None)
    ELSE IF tipo_dato = "numero" THEN str_int(value)
    ELSE IF tipo_dato = "decimal" THEN str_float(value)
    ELSE IF tipo_dato = "boolean"
        THEN Returned(IF value \in BooleanTrue THEN <<"1">> ELSE <<"0">>)
    ELSE Returned(<<Quote>> \o value \o <<Quote>>)

format_value(tipo_dato, value) ==
    IF value = None \/ value = <<>> THEN Returned(None)
    ELSE IF tipo_dato = "texto"
        THEN Returned(<<Quote>> \o replace(value, <<Quote>>, <<Quote, Quote>>) \o <<Quote>>)
    ELSE IF tipo_dato = "numero" THEN str_int(value)
    ELSE IF tipo_dato = "decimal" THEN str_float(value)
    ELSE IF tipo_dato = "fecha" THEN Returned(<<Quote>> \o value \o <<Quote>>)
    ELSE IF tipo_dato = "boolean"
        THEN Returned(IF value \in BooleanTrue THEN <<"1">> ELSE <<"0">>)
    ELSE Returned(<<Quote>> \o value \o <<Quote>>)

\* the words _validar_valor_por_defecto takes for a boolean, in lower case
BooleanWords ==
    {Str("true"), Str("false"), <<"1">>, <<"0">>, Str("si"), Str("no")}

\* the days of a month of a year
DaysIn(year, month) ==
    IF month = 2
        THEN (IF year % 4 = 0 /\ (year % 100 # 0 \/ year % 400 = 0) THEN 29 ELSE 28)
    ELSE IF month \in {4, 6, 9, 11} THEN 30 ELSE 31

\* parse_date(valor) of django.utils.dateparse for a text of the form
\* year-month-day: TRUE when it returns a date, FALSE when it returns None
\* or raises ValueError (other ISO forms are not drawn by this model)
parse_date(valor) ==
    LET dashes == {i \in 1..Len(valor) : valor[i] = "-"}
        d1     == SetMin(dashes)
        d2     == SetMin(dashes \ {d1})
        year   == SubSeq(valor, 1, d1 - 1)
        month  == SubSeq(valor, d1 + 1, d2 - 1)
        day    == SubSeq(valor, d2 + 1, Len(valor))
        digits(t) == \A i \in 1..Len(t) : IsDigit(t[i])
    IN  /\ Cardinality(dashes) = 2
        /\ Len(year) = 4 /\ Len(month) \in {1, 2} /\ Len(day) \in {1, 2}
        /\ digits(year) /\ digits(month) /\ digits(day)
        /\ DigitsToInt(year) >= 1
        /\ DigitsToInt(month) \in 1..12
        /\ DigitsToInt(day) \in 1..DaysIn(DigitsToInt(year), DigitsToInt(month))

\* QueryParameter._validar_valor_por_defecto(): Raised when it raises
\* ValidationError, Returned(None) when it returns
_validar_valor_por_defecto(tipo_dato, valor_por_defecto) ==
    LET valor == strip(valor_por_defecto)
    IN  IF tipo_dato = "numero"
            THEN (IF str_int(valor).raised THEN Raised ELSE Returned(None))
        ELSE IF tipo_dato = "decimal"
            THEN (IF str_float(valor).raised THEN Raised ELSE Returned(None))
        ELSE IF tipo_dato = "fecha"
            THEN (IF parse_date(valor) THEN Returned(None) ELSE Raised)
        ELSE IF tipo_dato = "boolean"
            THEN (IF lower(valor) \notin BooleanWords THEN Raised ELSE Returned(None))
        ELSE Returned(None)

----------------------------------------------------------------------------
(* services/query_builder.py: QueryBuilderService.                         *)
(* A query definition is a record of its three fragments; its parameter    *)
(* definitions (query_obj.parametros) are a function from posicion_where   *)
(* to [tipo_dato, requerido, etiqueta_usuario, orden]; params_dict is a    *)
(* function from positions to raw values (a str or None).  A params_dict   *)
(* of None behaves as the empty dict in every place the code reads it.     *)

GROUP_BY == Str("GROUP BY")

ORDER_BY == Str("ORDER BY")

_separate_clauses(where_clause) ==
    IF where_clause = <<>>
    THEN [where_part |-> <<>>, group_by_part |-> <<>>, order_by_part |-> <<>>]
    ELSE
    LET text == sub_spaces(strip(where_clause), 1)
        group_by_match == search_word_ic(text, GROUP_BY)
        order_by_match == search_word_ic(text, ORDER_BY)
    IN  IF group_by_match # 0 THEN
            IF order_by_match # 0 /\ order_by_match > group_by_match
            THEN [where_part    |-> strip(Slice(text, 1, group_by_match)),
                  group_by_part |-> strip(Slice(text, group_by_match, order_by_match)),
                  order_by_part |-> strip(Slice(text, order_by_match, Len(text) + 1))]
            ELSE [where_part    |-> strip(Slice(text, 1, group_by_match)),
                  group_by_part |-> strip(Slice(text, group_by_match, Len(text) + 1)),
                  order_by_part |-> <<>>]
        ELSE IF order_by_match # 0
            THEN [where_part    |-> strip(Slice(text, 1, order_by_match)),
                  group_by_part |-> <<>>,
                  order_by_part |-> strip(Slice(text, order_by_match, Len(text) + 1))]
        ELSE [where_part |-> text, group_by_part |-> <<>>, order_by_part |-> <<>>]

\* a match of \s+AND\s+ (re.IGNORECASE) starts at index i: the index after it, else 0
AndMatchEnd(s, i) ==
    IF i <= Len(s) /\ IsSpace(s[i]) THEN
        LET j == SkipSpace(s, i)
        IN  IF j + 3 <= Len(s) /\ upper(SubSeq(s, j, j + 2)) = Str("AND") /\ IsSpace(s[j + 3])
            THEN SkipSpace(s, j + 3)
            ELSE 0
    ELSE 0

\* re.split(r'\s+AND\s+', s, flags=re.IGNORECASE): the pieces of s from index
\* start on, the scan for the next separator being at index i
RECURSIVE split_and(_, _, _)
split_and(s, start, i) ==
    IF i > Len(s) THEN <<Slice(s, start, Len(s) + 1)>>
    ELSE LET e == AndMatchEnd(s, i)
         IN  IF e # 0 THEN <<Slice(s, start, i)>> \o split_and(s, e, e)
             ELSE split_and(s, start, i + 1)

_parse_conditions(where_clause) ==
    LET conditions == split_and(where_clause, 1, 1)
    IN  SelectSeq([k \in 1..Len(conditions) |-> strip(conditions[k])],
                  LAMBDA c : c # <<>>)

\* re.findall(r'%(\d+)', condition) as integers, scanning from index i
RECURSIVE extract_from(_, _)
extract_from(condition, i) ==
    IF i > Len(condition) THEN <<>>
    ELSE IF condition[i] = "%" /\ i < Len(condition) /\ IsDigit(condition[i + 1]) THEN
        LET e == SkipDigits(condition, i + 1)
        IN  <<DigitsToInt(Slice(condition, i + 1, e))>> \o extract_from(condition, e)
    ELSE extract_from(condition, i + 1)

_extract_param_positions(condition) == extract_from(condition, 1)

\* f"%{pos}"
Placeholder(pos) == <<"%">> \o IntToDigits(pos)

\* a check that takes any key of params_dict as supplied
Supplied_AnyKey(params_dict, pos) == pos \in DOMAIN params_dict

\* pos in params_dict and params_dict[pos] not in [None, '']
Supplied(params_dict, pos) ==
    pos \in DOMAIN params_dict /\ params_dict[pos] # None /\ params_dict[pos] # <<>>

\* the inner loop of _build_where_conditions (lines 137-142) from the k-th
\* position on, `replaced` being the condition so far
RECURSIVE substitute(_, _, _, _, _)
substitute(parametros, params_dict, param_positions, k, replaced) ==
    IF k > Len(param_positions) THEN Returned(replaced)
    ELSE LET pos == param_positions[k]
         IN  IF pos \in DOMAIN parametros THEN
                 LET value == format_value(parametros[pos].tipo_dato, params_dict[pos])
                 IN  IF value.raised THEN Raised
                     ELSE IF value.val # None
                         THEN substitute(parametros, params_dict, param_positions, k + 1,
                                         replace(replaced, Placeholder(pos), value.val))
                     ELSE substitute(parametros, params_dict, param_positions, k + 1, replaced)
             ELSE substitute(parametros, params_dict, param_positions, k + 1, replaced)

\* the condition is kept: all its positions are supplied (line 132)
IsActive(params_dict, condition) ==
    LET param_positions == _extract_param_positions(condition)
    IN  \A k \in 1..Len(param_positions) : Supplied(params_dict, param_positions[k])

\* the outer loop of _build_where_conditions from the k-th condition on:
\* the list active_conditions, or Raised
RECURSIVE active_conditions(_, _, _, _)
active_conditions(parametros, params_dict, conditions, k) ==
    IF k > Len(conditions) THEN Returned(<<>>)
    ELSE LET rest == active_conditions(parametros, params_dict, conditions, k + 1)
             this == substitute(parametros, params_dict,
                                _extract_param_positions(conditions[k]), 1, conditions[k])
         IN  IF IsActive(params_dict, conditions[k]) THEN
                 IF this.raised \/ rest.raised THEN Raised
                 ELSE Returned(<<this.val>> \o rest.val)
             ELSE rest

_build_where_conditions(parametros, params_dict, where_template) ==
    IF where_template = <<>> THEN Returned(<<>>)
    ELSE LET active == active_conditions(parametros, params_dict,
                                         _parse_conditions(where_template), 1)
         IN  IF active.raised THEN Raised
             ELSE Returned(join(Str(" AND "), active.val))

\* a build that processes the WHERE template whatever params_dict holds
build_query_any_params(query_obj, parametros, params_dict) ==
    LET parts == _separate_clauses(strip(query_obj.where_clause))
        head  == <<Str("SELECT ") \o strip(query_obj.select_clause), strip(query_obj.from_clause)>>
        tail  == (IF parts.group_by_part # <<>> THEN <<parts.group_by_part>> ELSE <<>>)
                 \o (IF parts.order_by_part # <<>> THEN <<parts.order_by_part>> ELSE <<>>)
        where_conditions == _build_where_conditions(parametros, params_dict, parts.where_part)
    IN  IF where_conditions.raised THEN Raised
        ELSE IF where_conditions.val # <<>>
            THEN Returned(join(<<"\n">>, head \o <<Str("WHERE ") \o where_conditions.val>> \o tail))
        ELSE Returned(join(<<"\n">>, head \o tail))

\* build_query: [raised |-> TRUE] when format_value raised, else the final SQL
build_query(query_obj, parametros, params_dict) ==
    LET select_clause == strip(query_obj.select_clause)
        from_clause   == strip(query_obj.from_clause)
        where_clause  == strip(query_obj.where_clause)
        parts         == _separate_clauses(where_clause)
        head          == <<Str("SELECT ") \o select_clause, from_clause>>
        tail          == (IF parts.group_by_part # <<>> THEN <<parts.group_by_part>> ELSE <<>>)
                         \o (IF parts.order_by_part # <<>> THEN <<parts.order_by_part>> ELSE <<>>)
    IN  IF parts.where_part # <<>> /\ DOMAIN params_dict # {} THEN
            LET where_conditions ==
                    _build_where_conditions(parametros, params_dict, parts.where_part)
            IN  IF where_conditions.raised THEN Raised
                ELSE IF where_conditions.val # <<>>
                    THEN Returned(join(<<"\n">>,
                             head \o <<Str("WHERE ") \o where_conditions.val>>
                                  \o tail))
                ELSE Returned(join(<<"\n">>, head \o tail))
        ELSE Returned(join(<<"\n">>, head \o tail))

----------------------------------------------------------------------------
(* services/query_validator.py: QueryValidatorService.                     *)
(* A validation outcome is NoError, or the ValidationError raised: a       *)
(* record of its kind (code), the command or pattern it cites (detail) and,*)
(* for a missing ON, the JOIN and ON counts of its message.                *)

DANGEROUS_COMMANDS ==
    <<"DROP", "DELETE", "INSERT", "UPDATE", "ALTER",
      "TRUNCATE", "EXEC", "EXECUTE", "CREATE", "GRANT",
      "REVOKE", "DENY", "BACKUP", "RESTORE", "SHUTDOWN">>

NoError == [code |-> "ok", detail |-> "", joins |-> 0, ons |-> 0]

ValidationError(code, detail) == [code |-> code, detail |-> detail, joins |-> 0, ons |-> 0]

\* the first element of seq, from index k on, that is in accepted; "" when none
RECURSIVE FirstIn(_, _, _)
FirstIn(seq, accepted, k) ==
    IF k > Len(seq) THEN ""
    ELSE IF seq[k] \in accepted THEN seq[k]
    ELSE FirstIn(seq, accepted, k + 1)

Range(seq) == {seq[k] : k \in 1..Len(seq)}

\* the number of occurrences of the literal p in s
Count(s, p) == Cardinality({i \in 1..(Len(s) - Len(p) + 1) : MatchAt(s, p, i)})

\* a check that looks for the commands anywhere in the text
validate_sql_safety_substring(sql_text) ==
    IF sql_text = <<>> THEN NoError
    ELSE LET sql_upper == upper(sql_text)
             command   == FirstIn(DANGEROUS_COMMANDS,
                                    {c \in Range(DANGEROUS_COMMANDS) : Contains(sql_upper, Str(c))}, 1)
         IN  IF command # "" THEN ValidationError("dangerous", command) ELSE NoError

validate_sql_safety(sql_text) ==
    IF sql_text = <<>> THEN NoError
    ELSE LET sql_upper == upper(sql_text)
             command   == FirstIn(DANGEROUS_COMMANDS,
                                    {c \in Range(DANGEROUS_COMMANDS) : WordMatches(sql_upper, Str(c)) # {}}, 1)
         IN  IF command # "" THEN ValidationError("dangerous", command) ELSE NoError

validate_select_clause(select_clause) ==
    IF strip(select_clause) = <<>> THEN ValidationError("empty", "SELECT")
    ELSE LET safety       == validate_sql_safety(select_clause)
             select_upper == upper(select_clause)
         IN  IF safety # NoError THEN safety
             ELSE IF Contains(select_upper, Str("FROM")) \/ Contains(select_upper, Str("WHERE"))
                 THEN ValidationError("from_or_where", "SELECT")
             ELSE NoError

validate_from_clause(from_clause) ==
    IF strip(from_clause) = <<>> THEN ValidationError("empty", "FROM")
    ELSE LET safety     == validate_sql_safety(from_clause)
             from_upper == upper(strip(from_clause))
             \* re.findall(r'(INNER|LEFT|RIGHT|FULL|CROSS)?\s*JOIN', from_upper): the
             \* optional prefix never holds a JOIN, so each JOIN is found once
             joins       == Count(from_upper, Str("JOIN"))
             ons         == Cardinality(WordMatches(from_upper, Str("ON")))
             cross_joins == Count(from_upper, Str("CROSS JOIN"))
             required_ons == joins - cross_joins
         IN  IF safety # NoError THEN safety
             ELSE IF ~startswith(from_upper, Str("FROM"))
                 THEN ValidationError("not_from", "FROM")
             ELSE IF Contains(from_upper, Str("JOIN")) /\ ons < required_ons
                 THEN [code |-> "missing_on", detail |-> "FROM", joins |-> joins, ons |-> ons]
             ELSE NoError

\* sorted(set(...)) of a sequence of integers
RECURSIVE SortedSet(_)
SortedSet(S) ==
    IF S = {} THEN <<>> ELSE <<SetMin(S)>> \o SortedSet(S \ {SetMin(S)})

validate_where_clause(where_clause) ==
    IF strip(where_clause) = <<>> THEN NoError
    ELSE LET safety     == validate_sql_safety(where_clause)
             parametros == extract_from(where_clause, 1)
         IN  IF safety # NoError THEN safety
             ELSE IF parametros # <<>> /\ SortedSet(Range(parametros))[1] # 1
                 THEN ValidationError("first_param", "WHERE")
             ELSE NoError

extract_parameter_positions(where_clause) ==
    IF where_clause = <<>> THEN <<>>
    ELSE SortedSet(Range(extract_from(where_clause, 1)))

suspicious_patterns == <<"';", "--", "/*", "*/", "@@", "xp_", "sp_">>

\* re.search of the literal pattern with re.IGNORECASE
SearchIgnoreCase(text, pattern) == Contains(lower(text), lower(Str(pattern)))

\* a check that looks at no pattern
check_sql_injection_patterns_none(text) == NoError

check_sql_injection_patterns(text) ==
    IF text = <<>> THEN NoError
    ELSE LET pattern == FirstIn(suspicious_patterns,
                                  {p \in Range(suspicious_patterns) : SearchIgnoreCase(text, p)}, 1)
         IN  IF pattern # "" THEN ValidationError("suspicious", pattern) ELSE NoError

\* the entry validate_full_query appends to result['errors'] for a failed check
Tagged(tag, error) == [tag |-> tag, error |-> error]

validate_full_query(select_clause, from_clause, where_clause) ==
    LET s == validate_select_clause(select_clause)
        f == validate_from_clause(from_clause)
        w == validate_where_clause(where_clause)
        full_query == select_clause \o <<" ">> \o from_clause \o <<" ">> \o where_clause
        i == check_sql_injection_patterns(full_query)
        errors == (IF s # NoError THEN <<Tagged("SELECT", s)>> ELSE <<>>)
                  \o (IF f # NoError THEN <<Tagged("FROM", f)>> ELSE <<>>)
                  \o (IF w # NoError THEN <<Tagged("WHERE", w)>> ELSE <<>>)
                  \o (IF i # NoError THEN <<Tagged("", i)>> ELSE <<>>)
    IN  [valid  |-> errors = <<>>,
         errors |-> errors,
         parameter_positions |->
             IF w = NoError THEN extract_parameter_positions(where_clause) ELSE <<>>]

----------------------------------------------------------------------------
(* QueryBuilderService.validate_parameters.                                *)
(* parametros is the table of the query's parameters, posicion_where ->    *)
(* [tipo_dato, requerido, etiqueta_usuario, orden].                        *)

\* the positions of S in the order of their field orden
RECURSIVE order_by_orden(_, _)
order_by_orden(parametros, S) ==
    IF S = {} THEN <<>>
    ELSE LET first == CHOOSE p \in S :
                        \A q \in S : \/ parametros[p].orden < parametros[q].orden
                                     \/ (parametros[p].orden = parametros[q].orden /\ p <= q)
         IN  <<first>> \o order_by_orden(parametros, S \ {first})

\* query_obj.parametros.filter(requerido=True).order_by('orden')
get_required_parameters(parametros) ==
    order_by_orden(parametros, {p \in DOMAIN parametros : parametros[p].requerido})

es_obligatorio(etiqueta_usuario) ==
    Str("El parámetro '") \o etiqueta_usuario \o Str("' es obligatorio")

no_puede_estar_vacio(etiqueta_usuario) ==
    Str("El parámetro '") \o etiqueta_usuario \o Str("' no puede estar vacío")

RECURSIVE required_errors(_, _, _, _)
required_errors(parametros, params_dict, required_params, k) ==
    IF k > Len(required_params) THEN <<>>
    ELSE LET posicion_where == required_params[k]
             param == parametros[posicion_where]
             rest  == required_errors(parametros, params_dict, required_params, k + 1)
         IN  IF posicion_where \notin DOMAIN params_dict
                 THEN <<es_obligatorio(param.etiqueta_usuario)>> \o rest
             ELSE IF params_dict[posicion_where] \in {None, <<>>}
                 THEN <<no_puede_estar_vacio(param.etiqueta_usuario)>> \o rest
             ELSE rest

\* a validation that stops at the first parameter it finds missing
validate_parameters_first_only(parametros, params_dict) ==
    LET errors == required_errors(parametros, params_dict,
                                  get_required_parameters(parametros), 1)
    IN  [valid |-> errors = <<>>, errors |-> IF errors = <<>> THEN <<>> ELSE <<errors[1]>>]

validate_parameters(parametros, params_dict) ==
    LET errors == required_errors(parametros, params_dict,
                                  get_required_parameters(parametros), 1)
    IN  [valid |-> errors = <<>>, errors |-> errors]

----------------------------------------------------------------------------
(* DynamicQuery.clean and save.                                            *)

dangerous_keywords ==
    <<"DROP", "DELETE", "INSERT", "UPDATE", "ALTER", "TRUNCATE", "EXEC", "EXECUTE">>

clean(self) ==
    IF strip(self.select_clause) = <<>> THEN ValidationError("empty", "select_clause")
    ELSE IF strip(self.from_clause) = <<>> THEN ValidationError("empty", "from_clause")
    ELSE LET full_query == upper(self.select_clause \o <<" ">> \o self.from_clause
                                 \o <<" ">> \o self.where_clause)
             keyword    == FirstIn(dangerous_keywords,
                                     {k \in Range(dangerous_keywords) : Contains(full_query, Str(k))}, 1)
         IN  IF keyword # "" THEN ValidationError("dangerous", keyword) ELSE NoError

\* save() runs full_clean() first: the fields that may not be blank, then clean()
full_clean(self) ==
    IF self.select_clause = <<>> THEN ValidationError("blank", "select_clause")
    ELSE IF self.from_clause = <<>> THEN ValidationError("blank", "from_clause")
    ELSE clean(self)

----------------------------------------------------------------------------
(* SQLServerRepository.execute_query_with_pagination: the statements.      *)

RESULTS_PER_PAGE == 50

SQL_QUERY_TIMEOUT == 30

TEST_PAGE_SIZE == 10

MAX_RESULTS_LIMIT == 10000

set_lock_timeout(timeout) == Str("SET LOCK_TIMEOUT ") \o IntToDigits(timeout * 1000)

paginated_sql(sql, page, page_size) ==
    LET offset       == (page - 1) * page_size
        sql_upper    == upper(strip(sql))
        has_order_by == Contains(sql_upper, Str("ORDER BY"))
        ordered      == IF ~has_order_by THEN sql \o Str("\nORDER BY (SELECT NULL)") ELSE sql
    IN  ordered \o Str("\nOFFSET ") \o IntToDigits(offset) \o Str(" ROWS\nFETCH NEXT ")
                \o IntToDigits(page_size + 1) \o Str(" ROWS ONLY")

\* the result execute_query_with_pagination starts from (lines 87-94)
NotCalled == [success |-> FALSE, error |-> None, data |-> 0, total_rows |-> 0, has_next |-> FALSE]

\* lines 122-140: the result for the rows cursor.fetchall() returned, the rows
\* given by their number
fetched_page(rows, page_size) ==
    [success    |-> TRUE,
     error      |-> None,
     data       |-> IF rows > page_size THEN page_size ELSE rows,
     total_rows |-> IF rows > page_size THEN page_size ELSE rows,
     has_next   |-> rows > page_size]

----------------------------------------------------------------------------
(* services/from_parser.py: FromParserService.                             *)
(* The two patterns are matched as the re module matches them: every       *)
(* quantifier takes as much as it can, and since all that follows the      *)
(* table name is optional, nothing is given back except by the \s+ after   *)
(* ON.  upper_text is the text in upper case, for re.IGNORECASE.           *)

JOIN_TYPES == <<"INNER", "LEFT", "RIGHT", "FULL", "CROSS">>

\* [a-zA-Z_]
IsNameStart(c) == IndexIn(LowerSeq, c) # 0 \/ IndexIn(UpperSeq, c) # 0 \/ c = "_"

\* index after the run of [\w.] (dots = TRUE) or of \w that holds index i
RECURSIVE SkipName(_, _, _)
SkipName(s, i, dots) ==
    IF i <= Len(s) /\ (IsWordChar(s[i]) \/ (dots /\ s[i] = "."))
    THEN SkipName(s, i + 1, dots) ELSE i

\* a keyword followed by \s+ starts at index i
KeywordAt(s, upper_text, keyword, i) ==
    /\ MatchAt(upper_text, keyword, i)
    /\ i + Len(keyword) <= Len(s)
    /\ IsSpace(s[i + Len(keyword)])

NoMatch == [matched |-> FALSE]

\* the alias of ([a-zA-Z_][\w]*)? at index i, the table having been read
alias_match(s, table, i) ==
    IF i <= Len(s) /\ IsNameStart(s[i])
    THEN [matched |-> TRUE, table |-> table,
          alias |-> Slice(s, i, SkipName(s, i, FALSE)), end |-> SkipName(s, i, FALSE)]
    ELSE [matched |-> TRUE, table |-> table, alias |-> None, end |-> i]

\* ([a-zA-Z_][\w.]*)\s*(?:AS\s+)?([a-zA-Z_][\w]*)? at index i
table_match(s, upper_text, i) ==
    IF i <= Len(s) /\ IsNameStart(s[i]) THEN
        LET after_table == SkipSpace(s, SkipName(s, i, TRUE))
        IN  alias_match(s, Slice(s, i, SkipName(s, i, TRUE)),
                        IF KeywordAt(s, upper_text, Str("AS"), after_table)
                        THEN SkipSpace(s, after_table + 2) ELSE after_table)
    ELSE NoMatch

\* FROM\s+ and the table pattern at index i
base_match(s, upper_text, i) ==
    IF KeywordAt(s, upper_text, Str("FROM"), i)
    THEN table_match(s, upper_text, SkipSpace(s, i + 4))
    ELSE NoMatch

\* re.search(pattern, from_clause, re.IGNORECASE) from index i on
RECURSIVE search_base(_, _, _)
search_base(s, upper_text, i) ==
    IF i > Len(s) THEN NoMatch
    ELSE IF base_match(s, upper_text, i).matched THEN base_match(s, upper_text, i)
    ELSE search_base(s, upper_text, i + 1)

_extract_base_table(from_clause) ==
    LET match == search_base(from_clause, upper(from_clause), 1)
    IN  IF match.matched THEN [table |-> match.table, alias |-> match.alias]
        ELSE [table |-> None, alias |-> None]

\* the first index at or after i at which JOIN is written, Len + 1 when none
RECURSIVE UntilJoin(_, _)
UntilJoin(upper_text, i) ==
    IF i > Len(upper_text) \/ MatchAt(upper_text, Str("JOIN"), i) THEN i
    ELSE UntilJoin(upper_text, i + 1)

\* (?:ON\s+((?:(?!JOIN).)+))? at index i: group 4 stripped, and the end of the
\* match.  When JOIN or the end of the text follows the whitespace after ON,
\* \s+ gives back its last character to group 4, if it has two.
on_match(s, upper_text, i) ==
    IF KeywordAt(s, upper_text, Str("ON"), i) THEN
        LET start == SkipSpace(s, i + 2)
            stop  == UntilJoin(upper_text, start)
        IN  IF stop > start THEN [condition |-> strip(Slice(s, start, stop)), end |-> stop]
            ELSE IF start > i + 3 THEN [condition |-> <<>>, end |-> start]
            ELSE [condition |-> None, end |-> i]
    ELSE [condition |-> None, end |-> i]

\* the entry appended for a match, with the index at which the match ends
join_entry(type, table, on) ==
    [matched |-> TRUE,
     join |-> [type |-> IF type = "" THEN "INNER" ELSE type,
               table |-> table.table, alias |-> table.alias, condition |-> on.condition],
     end |-> on.end]

\* the rest of the pattern after JOIN\s+, at index i
join_tail(s, upper_text, type, table) ==
    IF table.matched
    THEN join_entry(type, table, on_match(s, upper_text, SkipSpace(s, table.end)))
    ELSE NoMatch

\* \s*JOIN\s+ and the rest at index i, the type having been read
join_after_type(s, upper_text, type, i) ==
    IF KeywordAt(s, upper_text, Str("JOIN"), SkipSpace(s, i))
    THEN join_tail(s, upper_text, type,
                   table_match(s, upper_text, SkipSpace(s, SkipSpace(s, i) + 4)))
    ELSE NoMatch

\* the whole pattern at index i
join_match(s, upper_text, i) ==
    LET type == FirstIn(JOIN_TYPES, {t \in Range(JOIN_TYPES) : MatchAt(upper_text, Str(t), i)}, 1)
    IN  join_after_type(s, upper_text, type, i + Len(Str(type)))

\* re.finditer(pattern, from_clause, re.IGNORECASE | re.DOTALL) from index i on
RECURSIVE finditer_joins(_, _, _)
finditer_joins(s, upper_text, i) ==
    IF i > Len(s) THEN <<>>
    ELSE IF join_match(s, upper_text, i).matched
        THEN <<join_match(s, upper_text, i).join>>
             \o finditer_joins(s, upper_text, join_match(s, upper_text, i).end)
    ELSE finditer_joins(s, upper_text, i + 1)

_extract_joins(from_clause) == finditer_joins(from_clause, upper(from_clause), 1)

\* the entries of result['preview'] (without their icons)
preview(base_info, joins) ==
    <<[type |-> "BASE", table |-> base_info.table, alias |-> base_info.alias,
       condition |-> None]>> \o joins

parsed_from(base_info, joins) ==
    [base_table |-> base_info.table,
     base_alias |-> base_info.alias,
     joins      |-> joins,
     all_tables |-> <<base_info.table>> \o [k \in 1..Len(joins) |-> joins[k].table],
     preview    |-> preview(base_info, joins)]

parse_from_clause(from_clause) ==
    IF from_clause = <<>>
    THEN [base_table |-> None, base_alias |-> None, joins |-> <<>>,
          all_tables |-> <<>>, preview |-> <<>>]
    ELSE parsed_from(_extract_base_table(strip(from_clause)),
                     _extract_joins(strip(from_clause)))

\* get_all_aliases: the dict alias -> table, as the set of its items (a later
\* entry replaces an earlier one of the same alias)
get_all_aliases(from_clause) ==
    LET parsed  == parse_from_clause(from_clause)
        entries == (IF parsed.base_alias \notin {None, <<>>}
                    THEN <<[alias |-> parsed.base_alias, table |-> parsed.base_table]>>
                    ELSE <<>>)
                   \o SelectSeq([k \in 1..Len(parsed.joins) |->
                                    [alias |-> parsed.joins[k].alias,
                                     table |-> parsed.joins[k].table]],
                                LAMBDA e : e.alias # None)
    IN  {entries[k] : k \in {k \in 1..Len(entries) :
                                \A l \in (k + 1)..Len(entries) : entries[l].alias # entries[k].alias}}

----------------------------------------------------------------------------
(* The state.                                                              *)

VARIABLES
    bld,    \* one call of build_query: its arguments, how the template was
            \* written (conjuncts, shape), and its result once it returned
    chk,    \* one text submitted to the validator: how it was written (tokens),
            \* the fragment it is put in, and the validator's answers
    frm,    \* one FROM fragment: how it was written (base, joins), its text, and
            \* what the parser and validate_from_clause answer for it
    cls,    \* one WHERE template given to _separate_clauses: how it was written,
            \* its text, the segments returned, and those of a second pass
    fmt,    \* one value given to format_value: the type, the value, the result
    pag,    \* one call of execute_query_with_pagination: the SQL given, the page,
            \* the rows the database holds, the statements sent and the result
    dynamic_queries,    \* table dynamic_queries: pk -> stored definition
    query_parameters,   \* table query_parameters: pk -> (posicion_where -> parameter)
    query_executions,   \* table query_executions: the records, oldest first
    last_pk,            \* the last primary key given to a definition
    statements,         \* the statements sent to the database, oldest first
    req,                \* the last request to a view that writes definitions: what
                        \* was posted, the tables before it, and the view's answer
    seen,               \* what the invocation read from the tables: the active flag
                        \* of the definition it loaded, and the parameters as the
                        \* view, validate_parameters and build_query read them
    inv                 \* the invocation of execute_query in progress or last ended

harness_vars == <<bld, chk, frm, cls, fmt, pag>>

system_vars == <<dynamic_queries, query_parameters, query_executions, last_pk, statements, req, seen, inv>>

vars == <<bld, chk, frm, cls, fmt, pag, dynamic_queries, query_parameters, query_executions,
          last_pk, statements, req, seen, inv>>

\* the value of a variable a specification does not use
Unused == <<"unused">>

SystemUnused ==
    /\ dynamic_queries = Unused
    /\ query_parameters = Unused
    /\ query_executions = Unused
    /\ last_pk = Unused
    /\ statements = Unused
    /\ req = Unused
    /\ seen = Unused
    /\ inv = Unused

----------------------------------------------------------------------------
(* SpecBuild: build_query applied to bounded WHERE templates.              *)
(* A template is written from a list of conjuncts, each a sequence of      *)
(* pieces: literal text, or a placeholder %N.  The list is kept beside the *)
(* text built from it, so that what build_query emits can be compared with *)
(* how the template was written.                                           *)

MaxConjuncts == 2

Lit(literal) == [lit |-> Str(literal), pos |-> 0]

Ph(pos) == [lit |-> <<>>, pos |-> pos]

Conjuncts ==
    <<  <<Lit("a.Estado = "), Ph(1)>>,
        <<Lit("p.Precio > "), Ph(2)>>,
        <<Lit("x = 1")>>,
        <<Lit("c IN ("), Ph(1), Lit(", "), Ph(10), Lit(")")>>,
        <<Lit("d = "), Ph(1), Lit(" OR e = "), Ph(2)>>  >>

\* how a template is laid out around its conjuncts
Shapes ==
    <<  [prefix |-> <<>>,          sep |-> Str(" AND "),   group |-> <<>>, order |-> <<>>],
        [prefix |-> Str("WHERE "), sep |-> Str(" AND "),   group |-> <<>>, order |-> <<>>],
        [prefix |-> <<>>,          sep |-> Str("\n and  "),
         group |-> Str("GROUP BY a.Estado"), order |-> Str("order by p.Precio")],
        [prefix |-> <<>>,          sep |-> Str(" AND "),
         group |-> Str("GROUP BY a.Estado HAVING COUNT(*) > %2"), order |-> <<>>]  >>

\* the parameter definitions of the query: posicion_where -> tipo_dato
Profiles ==
    <<  (1 :> [tipo_dato |-> "texto"])  @@ (2 :> [tipo_dato |-> "decimal"])
                                        @@ (10 :> [tipo_dato |-> "texto"]),
        (1 :> [tipo_dato |-> "numero"]) @@ (2 :> [tipo_dato |-> "fecha"])
                                        @@ (10 :> [tipo_dato |-> "boolean"])  >>

\* "absent" stands for a position that is no key of params_dict
Absent == <<"absent">>

Values1 == {Absent, None, <<>>, Str("Activo"), Str("%2"), Str("7")}

Values2 == {Absent, <<>>, Str("100"), Str("x AND y")}

Values10 == {Absent, Str("B")}

ParamsDict(v1, v2, v10) ==
    LET given == (1 :> v1) @@ (2 :> v2) @@ (10 :> v10)
        keys  == {k \in {1, 2, 10} : given[k] # Absent}
    IN  [k \in keys |-> given[k]]

\* the text of a piece, of a conjunct, of a template
PieceText(piece) == IF piece.pos = 0 THEN piece.lit ELSE Placeholder(piece.pos)

RECURSIVE Concat(_)
Concat(texts) == IF texts = <<>> THEN <<>> ELSE Head(texts) \o Concat(Tail(texts))

ConjunctText(conjunct) == Concat([k \in 1..Len(conjunct) |-> PieceText(conjunct[k])])

TemplateText(conjs, shape) ==
    LET body == join(shape.sep, [k \in 1..Len(conjs) |-> ConjunctText(Conjuncts[conjs[k]])])
        tail == (IF shape.group # <<>> THEN <<" ">> \o shape.group ELSE <<>>)
                \o (IF shape.order # <<>> THEN <<" ">> \o shape.order ELSE <<>>)
    IN  IF conjs = <<>> THEN tail ELSE shape.prefix \o body \o tail

\* the lists of at most MaxConjuncts conjuncts, in the order of Conjuncts
ConjunctLists ==
    {c \in UNION {[1..n -> 1..Len(Conjuncts)] : n \in 0..MaxConjuncts} :
        \A i, j \in 1..Len(c) : i < j => c[i] < c[j]}

NotBuilt == [raised |-> FALSE, val |-> <<"not built">>]

BuildInit ==
    /\ \E conjs \in ConjunctLists, shape \in 1..Len(Shapes) :
        LET query_obj == [select_clause |-> Str("a.Nombre AS Producto, p.Precio"),
                          from_clause   |-> Str("FROM dbo.Precios AS p"),
                          where_clause  |-> TemplateText(conjs, Shapes[shape])]
        IN  \E profile \in 1..Len(Profiles),
               v1 \in Values1, v2 \in Values2, v10 \in Values10 :
                bld = [conjs       |-> conjs,
                       shape       |-> shape,
                       query_obj   |-> query_obj,
                       parametros  |-> Profiles[profile],
                       params_dict |-> ParamsDict(v1, v2, v10),
                       out         |-> NotBuilt]
    /\ chk = Unused
    /\ frm = Unused
    /\ cls = Unused
    /\ fmt = Unused
    /\ pag = Unused
    /\ SystemUnused

Build ==
    /\ bld.out = NotBuilt
    /\ bld' = [bld EXCEPT !.out = build_query(bld.query_obj, bld.parametros, bld.params_dict)]
    /\ UNCHANGED <<chk, frm, cls, fmt, pag, system_vars>>

BuildNext == Build

SpecBuild == BuildInit /\ [][BuildNext]_vars

----------------------------------------------------------------------------
(* What the claims about build_query speak of.                             *)

\* the lines of a text
RECURSIVE Lines(_, _, _)
Lines(text, start, i) ==
    IF i > Len(text) THEN <<Slice(text, start, Len(text) + 1)>>
    ELSE IF text[i] = "\n" THEN <<Slice(text, start, i)>> \o Lines(text, i + 1, i + 1)
    ELSE Lines(text, start, i + 1)

Built == bld.out # NotBuilt /\ ~bld.out.raised

SqlLines == Lines(bld.out.val, 1, 1)

\* the lines of the final SQL that are a WHERE line
WhereLines == SelectSeq(SqlLines, LAMBDA l : startswith(l, Str("WHERE ")))

\* the position has a value other than None and the empty string
HasValue(pos) ==
    /\ pos \in DOMAIN bld.params_dict
    /\ bld.params_dict[pos] \notin {None, <<>>}

\* the conjuncts of the template, as written, all of whose positions have a value
Satisfied(k) ==
    \A p \in 1..Len(Conjuncts[bld.conjs[k]]) :
        LET piece == Conjuncts[bld.conjs[k]][p]
        IN  piece.pos # 0 => HasValue(piece.pos)

Kept == SelectSeq([k \in 1..Len(bld.conjs) |-> k], Satisfied)

\* the k-th conjunct as it stands in the template: the first carries the prefix
Written(k) ==
    (IF k = 1 THEN Shapes[bld.shape].prefix ELSE <<>>)
    \o [p \in 1..Len(Conjuncts[bld.conjs[k]]) |-> Conjuncts[bld.conjs[k]][p]]

\* the text before the first placeholder of the k-th conjunct
HeadText(k) ==
    (IF k = 1 THEN Shapes[bld.shape].prefix ELSE <<>>) \o Conjuncts[bld.conjs[k]][1].lit

\* the k-th conjunct with every placeholder replaced, piece by piece, by the
\* literal format_value gives for the position's type and value
Literal(pos) == format_value(bld.parametros[pos].tipo_dato, bld.params_dict[pos]).val

Substituted(k) ==
    (IF k = 1 THEN Shapes[bld.shape].prefix ELSE <<>>)
    \o Concat([p \in 1..Len(Conjuncts[bld.conjs[k]]) |->
                LET piece == Conjuncts[bld.conjs[k]][p]
                IN  IF piece.pos = 0 THEN piece.lit ELSE Literal(piece.pos)])

\* the list active_conditions of _build_where_conditions for this call
ActiveConditions ==
    active_conditions(bld.parametros, bld.params_dict,
                      _parse_conditions(_separate_clauses(strip(bld.query_obj.where_clause)).where_part),
                      1).val

\* the query of the end-to-end scenario: WHERE a.Estado = %1 AND p.Precio > %2,
\* %1 text, %2 decimal
IsScenario ==
    /\ bld.conjs = <<1, 2>>
    /\ bld.shape = 2
    /\ bld.parametros = Profiles[1]

\* C1: for the scenario query, whose where_clause begins with WHERE, the final
\* SQL has one WHERE line, with the keyword once: supplying only 1 = 'Activo'
\* gives WHERE a.Estado = 'Activo', supplying 1 = 'Activo' and 2 = 100 gives
\* WHERE a.Estado = 'Activo' AND p.Precio > 100.0.
C1_ScenarioWhere ==
    (Built /\ IsScenario) =>
        /\ bld.params_dict = (1 :> Str("Activo"))
            => WhereLines = <<Str("WHERE a.Estado = 'Activo'")>>
        /\ bld.params_dict = (1 :> Str("Activo")) @@ (2 :> Str("100"))
            => WhereLines = <<Str("WHERE a.Estado = 'Activo' AND p.Precio > 100.0")>>

\* C2: with a non-empty params_dict, the conjuncts build_query emits are exactly
\* the conjuncts of the template all of whose positions have a value other than
\* None and '', in the order of the template, joined by ' AND ' on one WHERE
\* line; the others are dropped, and there is no WHERE line when none is left.
C2_KeptConjuncts ==
    (Built /\ DOMAIN bld.params_dict # {}) =>
        LET emitted == ActiveConditions
            kept == Kept
            lines == SqlLines
        IN  /\ Len(emitted) = Len(kept)
            /\ \A j \in 1..Len(kept) : startswith(emitted[j], HeadText(kept[j]))
            /\ IF kept = <<>> THEN \A n \in 1..Len(lines) : ~startswith(lines[n], Str("WHERE "))
               ELSE /\ Len(lines) >= 3
                    /\ lines[3] = Str("WHERE ") \o join(Str(" AND "), emitted)
                    /\ \A n \in 4..Len(lines) : ~startswith(lines[n], Str("WHERE "))

\* C2's case: some conjuncts of the template are kept and some are dropped
C2_Witness ==
    /\ Built
    /\ Kept # <<>>
    /\ Len(Kept) < Len(bld.conjs)
    /\ Len(WhereLines) = 1

\* C3: every emitted conjunct is the conjunct as written with each placeholder
\* replaced by the literal of its own position, whatever the other placeholders
\* and the inserted values are.
C3_ExactSubstitution ==
    (Built /\ DOMAIN bld.params_dict # {}) =>
        LET emitted == ActiveConditions
            kept == Kept
        IN  \A j \in 1..Len(kept) :
                j <= Len(emitted) => emitted[j] = Substituted(kept[j])

\* the conjuncts of the template, as written, that hold no placeholder
PlaceholderFree(k) ==
    \A p \in 1..Len(Conjuncts[bld.conjs[k]]) : Conjuncts[bld.conjs[k]][p].pos = 0

\* C11: when params_dict is empty, the final SQL has no WHERE line, even when
\* the template has conjuncts without a placeholder; with a params_dict that is
\* not empty, whatever its values are, each of those conjuncts is on the WHERE
\* line.
C11_NoWhereWithoutValues ==
    Built =>
        /\ DOMAIN bld.params_dict = {} =>
                /\ WhereLines = <<>>
                /\ Len(SqlLines) = 2 + (IF Shapes[bld.shape].group # <<>> THEN 1 ELSE 0)
                                     + (IF Shapes[bld.shape].order # <<>> THEN 1 ELSE 0)
        /\ DOMAIN bld.params_dict # {} =>
                \A k \in 1..Len(bld.conjs) :
                    PlaceholderFree(k) =>
                        /\ Len(WhereLines) = 1
                        /\ \E j \in 1..Len(ActiveConditions) :
                                ActiveConditions[j] = Substituted(k)
                        /\ Contains(WhereLines[1], Substituted(k))

\* C11's case: a template with a conjunct without a placeholder was built with
\* an empty params_dict, and the SQL has no WHERE line
C11_Witness ==
    /\ Built
    /\ DOMAIN bld.params_dict = {}
    /\ \E k \in 1..Len(bld.conjs) : PlaceholderFree(k)
    /\ WhereLines = <<>>

\* a placeholder, a percent sign before a digit, is written in the text
HoldsPlaceholder(text) ==
    \E i \in 1..(Len(text) - 1) : text[i] = "%" /\ IsDigit(text[i + 1])

\* C28: when every position written anywhere in the stored template, after
\* GROUP BY and ORDER BY too, has a parameter definition and a value that is
\* not empty (and, here, no value is itself the text of a placeholder), the
\* final SQL holds no placeholder.
C28_NoPlaceholderLeft ==
    (/\ Built
     /\ \A pos \in Range(extract_parameter_positions(bld.query_obj.where_clause)) :
            pos \in DOMAIN bld.parametros /\ HasValue(pos)
     /\ \A pos \in DOMAIN bld.params_dict :
            ~HoldsPlaceholder(bld.params_dict[pos])) =>
        ~HoldsPlaceholder(bld.out.val)

----------------------------------------------------------------------------
(* SpecValid: the validator applied to bounded texts.                      *)
(* A text is written from tokens, alternately words (runs of letters,      *)
(* digits and underscores) and separators (runs of other characters); each *)
(* token records by hand the denylist keyword it is, if any, and whether   *)
(* an injection pattern occurs in it.                                      *)

MaxWords == 2

Word(text, kw, pat) == [text |-> Str(text), word |-> TRUE,  kw |-> kw, pat |-> pat]

Sep(text, pat)      == [text |-> Str(text), word |-> FALSE, kw |-> "", pat |-> pat]

Words ==
    <<  Word("DROP", "DROP", FALSE),
        Word("Update", "UPDATE", FALSE),
        Word("shutdown", "SHUTDOWN", FALSE),
        Word("DROPPED", "", FALSE),
        Word("update_date", "", FALSE),
        Word("XP_cmd", "", TRUE)  >>

Seps ==
    <<  Sep(" ", FALSE),
        Sep(".", FALSE)  >>

\* texts given whole: the two examples of validate_sql_safety, one text for each
\* injection pattern that the generated texts do not show, keywords of which
\* one is the beginning of the other, and texts with FROM and WHERE as a word,
\* inside a longer word, and with blanks only
Examples ==
    <<  <<Word("SELECT", "", FALSE), Sep(" * ", FALSE), Word("FROM", "", FALSE), Sep(" ", FALSE),
          Word("T", "", FALSE), Sep("; ", FALSE), Word("DROP", "DROP", FALSE), Sep(" ", FALSE),
          Word("TABLE", "", FALSE), Sep(" ", FALSE), Word("T", "", FALSE)>>,
        <<Word("SELECT", "", FALSE), Sep(" ", FALSE), Word("a", "", FALSE), Sep(".", FALSE),
          Word("Name", "", FALSE), Sep(" ", FALSE), Word("AS", "", FALSE), Sep(" ", FALSE),
          Word("ProductName", "", FALSE)>>,
        <<Word("a", "", FALSE), Sep(" /* ", TRUE), Word("b", "", FALSE)>>,
        <<Word("a", "", FALSE), Sep(" */ ", TRUE), Word("b", "", FALSE)>>,
        <<Sep("@@", TRUE), Word("version", "", FALSE)>>,
        <<Word("sp_help", "", TRUE)>>,
        <<Word("a", "", FALSE), Sep(" -- ", TRUE), Word("Name", "", FALSE)>>,
        <<Word("a", "", FALSE), Sep("';", TRUE), Word("Drop", "DROP", FALSE)>>,
        <<Word("exec", "EXEC", FALSE), Sep(" ", FALSE), Word("Grant", "GRANT", FALSE)>>,
        <<Word("EXECUTE", "EXECUTE", FALSE), Sep(" ", FALSE), Word("Name", "", FALSE)>>,
        <<Word("a", "", FALSE), Sep(".", FALSE), Word("ValidFrom", "", FALSE)>>,
        <<Word("a", "", FALSE), Sep(".", FALSE), Word("x", "", FALSE), Sep(" ", FALSE),
          Word("from", "", FALSE), Sep(" ", FALSE), Word("t", "", FALSE)>>,
        <<Word("Somewhere", "", FALSE)>>,
        <<Word("a", "", FALSE), Sep(" ", FALSE), Word("Where", "", FALSE), Sep(" ", FALSE),
          Word("b", "", FALSE)>>,
        <<Sep("  ", FALSE)>>  >>

\* the texts of n words: word, separator, word, ...
RECURSIVE Generated(_)
Generated(n) ==
    IF n = 0 THEN {<<>>}
    ELSE IF n = 1 THEN {<<Words[w]>> : w \in 1..Len(Words)}
    ELSE {t \o <<Seps[s], Words[w]>> : t \in Generated(n - 1), s \in 1..Len(Seps), w \in 1..Len(Words)}

Probes == UNION {Generated(n) : n \in 0..MaxWords} \cup {Examples[e] : e \in 1..Len(Examples)}

\* words are words, separators are not, and the two alternate
WellFormed(tokens) ==
    /\ \A k \in 1..Len(tokens) :
        /\ tokens[k].text # <<>>
        /\ \A c \in 1..Len(tokens[k].text) : IsWordChar(tokens[k].text[c]) <=> tokens[k].word
    /\ \A k \in 1..(Len(tokens) - 1) : tokens[k].word # tokens[k + 1].word

TokensText(tokens) == Concat([k \in 1..Len(tokens) |-> tokens[k].text])

\* the fragments of a definition that passes the validator
CleanFragments ==
    [select |-> Str("a.Nombre AS Producto"),
     from   |-> Str("FROM dbo.Precios AS a"),
     where  |-> Str("a.Estado = %1")]

Slots == {"select", "from", "where"}

\* the fragment of the slot: the clean one, followed in the probed slot by the text
Fragment(slot) ==
    IF chk.slot = slot /\ chk.tokens # <<>>
    THEN CleanFragments[slot] \o <<" ">> \o chk.text
    ELSE CleanFragments[slot]

NotRun == [code |-> "not run"]

ValidInit ==
    /\ \E tokens \in Probes, slot \in Slots :
        /\ WellFormed(tokens)
        /\ chk = [tokens |-> tokens, text |-> TokensText(tokens), slot |-> slot,
                  safety |-> NotRun, select |-> NotRun, full |-> NotRun,
                  clean |-> NotRun]
    /\ bld = Unused
    /\ frm = Unused
    /\ cls = Unused
    /\ fmt = Unused
    /\ pag = Unused
    /\ SystemUnused

\* validate_sql_safety(text)
ValidateSafety ==
    /\ chk.safety = NotRun
    /\ chk' = [chk EXCEPT !.safety = validate_sql_safety(chk.text)]
    /\ UNCHANGED <<bld, frm, cls, fmt, pag, system_vars>>

\* validate_select_clause(text), for a text probed as a SELECT fragment
ValidateSelect ==
    /\ chk.slot = "select"
    /\ chk.select = NotRun
    /\ chk' = [chk EXCEPT !.select = validate_select_clause(chk.text)]
    /\ UNCHANGED <<bld, frm, cls, fmt, pag, system_vars>>

\* validate_full_query(select_clause, from_clause, where_clause)
ValidateFull ==
    /\ chk.full = NotRun
    /\ chk' = [chk EXCEPT !.full = validate_full_query(Fragment("select"), Fragment("from"),
                                                       Fragment("where"))]
    /\ UNCHANGED <<bld, frm, cls, fmt, pag, system_vars>>

\* DynamicQuery.clean() on a definition of the three fragments
Clean ==
    /\ chk.clean = NotRun
    /\ chk' = [chk EXCEPT !.clean = clean([select_clause |-> Fragment("select"),
                                           from_clause   |-> Fragment("from"),
                                           where_clause  |-> Fragment("where")])]
    /\ UNCHANGED <<bld, frm, cls, fmt, pag, system_vars>>

ValidNext == ValidateSafety \/ ValidateSelect \/ ValidateFull \/ Clean

SpecValid == ValidInit /\ [][ValidNext]_vars

----------------------------------------------------------------------------
(* What the claims about the validator speak of.                           *)

\* the denylist keywords that are a word of the text
KeywordsWritten == {chk.tokens[k].kw : k \in 1..Len(chk.tokens)} \ {""}

\* an injection pattern was written in the text
PatternWritten == \E k \in 1..Len(chk.tokens) : chk.tokens[k].pat

\* C8: validate_full_query answers valid = false whenever one of the three
\* fragments holds a denylist keyword as a whole word, in any case, or one of
\* the injection patterns, whichever fragment it is.
C8_FullQueryRejects ==
    chk.full # NotRun =>
        ((KeywordsWritten # {} \/ PatternWritten) => ~chk.full.valid)

\* C8's case: a pattern and no keyword written in the WHERE fragment
C8_Witness ==
    /\ chk.full # NotRun
    /\ ~chk.full.valid
    /\ chk.slot = "where"
    /\ KeywordsWritten = {}
    /\ PatternWritten

\* C9: validate_sql_safety rejects a text exactly when a denylist keyword is one
\* of its words, in any case, and the keyword it cites is one of them; it
\* rejects SELECT * FROM T; DROP TABLE T citing DROP and accepts
\* SELECT a.Name AS ProductName; a longer word holding a keyword is accepted.
C9_SafetyIffKeyword ==
    chk.safety # NotRun =>
        /\ chk.safety.code = "dangerous" <=> KeywordsWritten # {}
        /\ chk.safety.code = "dangerous" => chk.safety.detail \in KeywordsWritten
        /\ chk.safety.code \in {"dangerous", "ok"}
        /\ chk.tokens = Examples[1] => chk.safety = ValidationError("dangerous", "DROP")
        /\ chk.tokens = Examples[2] => chk.safety = NoError

\* C9's cases: a text rejected for a keyword written in another case beside a
\* longer word that holds a keyword
C9_Witness ==
    /\ chk.safety # NotRun
    /\ chk.safety.code = "dangerous"
    /\ \E k \in 1..Len(chk.tokens) : chk.tokens[k].text = Str("DROPPED")
    /\ \E k \in 1..Len(chk.tokens) : chk.tokens[k].text = Str("Update")

\* FROM or WHERE is one of the words of the text, in any case
FromOrWhereWritten ==
    \E k \in 1..Len(chk.tokens) :
        chk.tokens[k].word /\ upper(chk.tokens[k].text) \in {Str("FROM"), Str("WHERE")}

\* the text has no word and nothing but blanks
BlankWritten ==
    \A k \in 1..Len(chk.tokens) :
        ~chk.tokens[k].word /\ \A c \in 1..Len(chk.tokens[k].text) : IsSpace(chk.tokens[k].text[c])

\* C16: validate_select_clause rejects a SELECT fragment exactly when it is
\* empty, or a denylist keyword is one of its words, or FROM or WHERE is one of
\* its words, in any case; every other fragment is accepted.
C16_SelectRejectsIffToken ==
    chk.select # NotRun =>
        (chk.select # NoError <=> (BlankWritten \/ KeywordsWritten # {} \/ FromOrWhereWritten))

\* C29: three fragments that validate_full_query accepts are accepted by
\* DynamicQuery.clean: no definition that passed the validator is refused at
\* save for a dangerous keyword.
C29_ValidatorsAgree ==
    (chk.full # NotRun /\ chk.clean # NotRun /\ chk.full.valid) =>
        chk.clean = NoError

----------------------------------------------------------------------------
(* SpecFrom: the FROM parser and validate_from_clause applied to bounded   *)
(* FROM fragments.  A fragment is written from a base table and a list of  *)
(* joins; what was written is kept beside the text, so that what the       *)
(* parser returns can be compared with it.                                 *)

MaxJoins == 2

\* a table reference: the name, the alias ("" when none is written) and
\* whether AS is written before the alias
Ref(table, alias, as) ==
    [table |-> Str(table), alias |-> IF alias = "" THEN None ELSE Str(alias), as |-> as]

\* the keyword before the base table as written ("" when it is left out)
Bases ==
    <<  [keyword |-> Str("FROM"), ref |-> Ref("dbo.Orders", "o", FALSE)],
        [keyword |-> Str("from"), ref |-> Ref("A", "", FALSE)],
        [keyword |-> Str("FROM"), ref |-> Ref("A", "a", TRUE)],
        [keyword |-> <<>>,        ref |-> Ref("A", "a", FALSE)]  >>

\* a join as written: the separator before it, its keywords, the type they
\* stand for, the table reference, the ON keyword and the condition (None when
\* no ON clause is written), and the number of times the word ON occurs in it
Join(sep, keywords, type, ref, on_keyword, on, on_words) ==
    [sep |-> Str(sep), keywords |-> Str(keywords), type |-> type, ref |-> ref,
     on_keyword |-> Str(on_keyword), on |-> IF on = "" THEN None ELSE Str(on),
     on_words |-> on_words]

JoinsWritten ==
    <<  Join(" ",  "LEFT JOIN",  "LEFT",  Ref("dbo.Customers", "c", FALSE), "ON", "o.cust_id = c.id", 1),
        Join(" ",  "JOIN",       "INNER", Ref("B", "", FALSE),              "ON", "A.id = B.id", 1),
        Join(" ",  "CROSS JOIN", "CROSS", Ref("C", "x", TRUE),              "",   "", 0),
        Join("\n", "inner join", "INNER", Ref("D", "d", FALSE),             "on", "a.id = d.id", 1),
        Join(" ",  "LEFT JOIN",  "LEFT",  Ref("G", "g", FALSE),             "",   "", 0),
        Join(" ",  "RIGHT JOIN", "RIGHT", Ref("F", "f", TRUE),              "ON", "f.flag = 'ON'", 2),
        Join(" ",  "CROSS JOIN", "CROSS", Ref("E", "", FALSE),              "",   "", 0),
        Join(" ",  "CROSS JOIN", "CROSS", Ref("H", "h", FALSE),             "ON", "h.id = 1", 1)  >>

RefText(ref) ==
    ref.table \o (IF ref.alias = None THEN <<>>
                  ELSE (IF ref.as THEN Str(" AS ") ELSE <<" ">>) \o ref.alias)

JoinText(written) ==
    written.sep \o written.keywords \o <<" ">> \o RefText(written.ref)
    \o (IF written.on = None THEN <<>>
        ELSE <<" ">> \o written.on_keyword \o <<" ">> \o written.on)

FromText(base, joins) ==
    (IF Bases[base].keyword = <<>> THEN <<>> ELSE Bases[base].keyword \o <<" ">>)
    \o RefText(Bases[base].ref)
    \o Concat([k \in 1..Len(joins) |-> JoinText(JoinsWritten[joins[k]])])

JoinLists == UNION {[1..n -> 1..Len(JoinsWritten)] : n \in 0..MaxJoins}

NotParsed == [joins |-> "not parsed"]

FromInit ==
    /\ \E base \in 1..Len(Bases), joins \in JoinLists :
        frm = [base |-> base, joins |-> joins, text |-> FromText(base, joins),
               parsed |-> NotParsed, aliases |-> NotRun, valid |-> NotRun]
    /\ bld = Unused
    /\ chk = Unused
    /\ cls = Unused
    /\ fmt = Unused
    /\ pag = Unused
    /\ SystemUnused

\* FromParserService.parse_from_clause(from_clause)
ParseFrom ==
    /\ frm.parsed = NotParsed
    /\ frm' = [frm EXCEPT !.parsed = parse_from_clause(frm.text)]
    /\ UNCHANGED <<bld, chk, cls, fmt, pag, system_vars>>

\* FromParserService.get_all_aliases(from_clause)
GetAllAliases ==
    /\ frm.aliases = NotRun
    /\ frm' = [frm EXCEPT !.aliases = [items |-> get_all_aliases(frm.text)]]
    /\ UNCHANGED <<bld, chk, cls, fmt, pag, system_vars>>

\* QueryValidatorService.validate_from_clause(from_clause)
ValidateFrom ==
    /\ frm.valid = NotRun
    /\ frm' = [frm EXCEPT !.valid = validate_from_clause(frm.text)]
    /\ UNCHANGED <<bld, chk, cls, fmt, pag, system_vars>>

FromNext == ParseFrom \/ GetAllAliases \/ ValidateFrom

SpecFrom == FromInit /\ [][FromNext]_vars

----------------------------------------------------------------------------
(* What the claims about FROM fragments speak of.                          *)

Parsed == frm.parsed # NotParsed

\* the k-th join as written
Written_join(k) == JoinsWritten[frm.joins[k]]

\* the joins written with an ON clause, and those that are no CROSS JOIN
OnClauses == {k \in 1..Len(frm.joins) : Written_join(k).on # None}

NonCross == {k \in 1..Len(frm.joins) : Written_join(k).type # "CROSS"}

\* the base table is written after the keyword FROM
StartsWithFrom == upper(Bases[frm.base].keyword) = Str("FROM")

\* the words the claims name as keywords that may follow a table name
FollowingKeywords ==
    {Str("ON"), Str("JOIN"), Str("INNER"), Str("LEFT"), Str("RIGHT"), Str("FULL"), Str("CROSS")}

IsKeyword(alias) == alias # None /\ upper(alias) \in FollowingKeywords

\* C12: the parser returns one entry for each JOIN written, in the order
\* written; the entry of a CROSS JOIN written without ON has no condition, and
\* when as many ON clauses as JOINs are written, every entry that is no CROSS
\* JOIN has a condition, whether or not the tables have aliases.
C12_OneEntryPerJoin ==
    Parsed =>
        LET joins == frm.parsed.joins
        IN  /\ Len(joins) = Len(frm.joins)
            /\ \A k \in 1..Len(joins) :
                /\ joins[k].table = Written_join(k).ref.table
                /\ (Written_join(k).type = "CROSS" /\ Written_join(k).on = None)
                        => joins[k].type = "CROSS" /\ joins[k].condition = None
                /\ (Cardinality(OnClauses) = Len(frm.joins) /\ joins[k].type # "CROSS")
                        => joins[k].condition # None

\* C13: in a fragment with two or more joins, the type of each entry is the
\* type written before its own JOIN (INNER when none is written), and its
\* condition is the text of its own ON clause, with nothing of the join that
\* follows.
C13_OwnTypeAndCondition ==
    (Parsed /\ Len(frm.joins) >= 2) =>
        \A k \in 1..Len(frm.joins) :
            k <= Len(frm.parsed.joins) =>
                /\ frm.parsed.joins[k].type = Written_join(k).type
                /\ frm.parsed.joins[k].condition = Written_join(k).on

\* C14: for a fragment that starts with FROM, the parser records the name of
\* the base table and of every joined table, and as alias the alias written
\* after it, with or without AS, None when none is written; ON, JOIN, INNER,
\* LEFT, RIGHT, FULL and CROSS are never recorded as an alias, by the parser or
\* by get_all_aliases.  FROM dbo.Orders o LEFT JOIN dbo.Customers c ON
\* o.cust_id = c.id gives dbo.Orders / o and the one join LEFT, dbo.Customers,
\* c, o.cust_id = c.id.
C14_TablesAndAliases ==
    /\ (Parsed /\ StartsWithFrom) =>
        /\ frm.parsed.base_table = Bases[frm.base].ref.table
        /\ frm.parsed.base_alias = Bases[frm.base].ref.alias
        /\ ~IsKeyword(frm.parsed.base_alias)
        /\ \A k \in 1..Len(frm.joins) :
            k <= Len(frm.parsed.joins) =>
                /\ frm.parsed.joins[k].table = Written_join(k).ref.table
                /\ frm.parsed.joins[k].alias = Written_join(k).ref.alias
                /\ ~IsKeyword(frm.parsed.joins[k].alias)
        /\ frm.text = Str("FROM dbo.Orders o LEFT JOIN dbo.Customers c ON o.cust_id = c.id") =>
            /\ frm.parsed.base_table = Str("dbo.Orders")
            /\ frm.parsed.base_alias = <<"o">>
            /\ frm.parsed.joins = <<[type |-> "LEFT", table |-> Str("dbo.Customers"),
                                     alias |-> <<"c">>, condition |-> Str("o.cust_id = c.id")]>>
    /\ (frm.aliases # NotRun /\ StartsWithFrom) =>
        \A entry \in frm.aliases.items : ~IsKeyword(entry.alias)

\* C15: validate_from_clause accepts a fragment only if it starts with FROM and
\* every JOIN that is no CROSS JOIN is written with its ON clause; a fragment
\* that starts with FROM in which the ON clauses are not as many as the JOINs
\* that are no CROSS JOIN is rejected, with the number of JOINs and the number
\* of ONs found in its message.
C15_EveryJoinHasOn ==
    frm.valid # NotRun =>
        /\ frm.valid = NoError =>
            /\ StartsWithFrom
            /\ NonCross \subseteq OnClauses
        /\ (StartsWithFrom /\ Cardinality(OnClauses) # Cardinality(NonCross)) =>
            /\ frm.valid.code = "missing_on"
            /\ frm.valid.joins = Len(frm.joins)

----------------------------------------------------------------------------
(* SpecClauses: _separate_clauses applied to bounded WHERE templates.      *)
(* A template is written from a predicate followed by GROUP BY and ORDER   *)
(* BY clauses in any order, with a blank or a line break between them.     *)

MaxMarkers == 2

\* a predicate as written, and as it reads with each run of whitespace made
\* one blank
Predicate(text, normal) == [text |-> Str(text), normal |-> Str(normal)]

Predicates ==
    <<  Predicate("", ""),
        Predicate("x = 1", "x = 1"),
        Predicate("a.Estado = %1\n  AND p.Precio > %2", "a.Estado = %1 AND p.Precio > %2"),
        Predicate("a.group_by = %1", "a.group_by = %1")  >>

Marker(kind, text) == [kind |-> kind, text |-> Str(text)]

Markers ==
    <<  Marker("group", "GROUP BY a.Estado"),
        Marker("group", "group by p.Precio"),
        Marker("order", "ORDER BY p.Precio"),
        Marker("order", "order by 1 DESC")  >>

Glues == <<Str(" "), Str("\n  ")>>

MarkerLists == UNION {[1..n -> 1..Len(Markers)] : n \in 0..MaxMarkers}

ClausesText(predicate, markers, glue) ==
    join(Glues[glue],
         (IF Predicates[predicate].text = <<>> THEN <<>> ELSE <<Predicates[predicate].text>>)
         \o [k \in 1..Len(markers) |-> Markers[markers[k]].text])

NotSeparated ==
    [where_part |-> <<"not separated">>, group_by_part |-> <<>>, order_by_part |-> <<>>]

ClausesInit ==
    /\ \E predicate \in 1..Len(Predicates), markers \in MarkerLists, glue \in 1..Len(Glues) :
        cls = [predicate |-> predicate, markers |-> markers, glue |-> glue,
               text |-> ClausesText(predicate, markers, glue),
               out |-> NotSeparated, again |-> NotSeparated]
    /\ bld = Unused
    /\ chk = Unused
    /\ frm = Unused
    /\ fmt = Unused
    /\ pag = Unused
    /\ SystemUnused

\* _separate_clauses(where_clause), as build_query calls it
Separate ==
    /\ cls.out = NotSeparated
    /\ cls' = [cls EXCEPT !.out = _separate_clauses(strip(cls.text))]
    /\ UNCHANGED <<bld, chk, frm, fmt, pag, system_vars>>

\* _separate_clauses applied to the WHERE segment it returned
SeparateAgain ==
    /\ cls.out # NotSeparated
    /\ cls.again = NotSeparated
    /\ cls' = [cls EXCEPT !.again = _separate_clauses(cls.out.where_part)]
    /\ UNCHANGED <<bld, chk, frm, fmt, pag, system_vars>>

ClausesNext == Separate \/ SeparateAgain

SpecClauses == ClausesInit /\ [][ClausesNext]_vars

----------------------------------------------------------------------------
(* What the claims about _separate_clauses speak of.                       *)

\* the index of the first clause of the kind among those written, 0 when none
FirstMarker(kind) ==
    LET found == {k \in 1..Len(cls.markers) : Markers[cls.markers[k]].kind = kind}
    IN  IF found = {} THEN 0 ELSE SetMin(found)

\* the clauses written from the i-th to the j-th, with one blank between them
MarkersText(i, j) ==
    join(<<" ">>, [k \in 1..(j - i + 1) |-> Markers[cls.markers[i + k - 1]].text])

\* C17: the WHERE segment is the predicate as written before the first GROUP BY
\* or ORDER BY, whichever comes first, whitespace normalized, and holds neither
\* marker; the GROUP BY segment is the text from the first GROUP BY up to the
\* ORDER BY or the end; the ORDER BY segment is the text from the first ORDER
\* BY to the end; with neither marker the whole template is the WHERE segment.
C17_SegmentsAtMarkers ==
    cls.out # NotSeparated =>
        LET g == FirstMarker("group")
            o == FirstMarker("order")
            n == Len(cls.markers)
        IN  /\ cls.out.where_part = Predicates[cls.predicate].normal
            /\ search_word_ic(cls.out.where_part, GROUP_BY) = 0
            /\ search_word_ic(cls.out.where_part, ORDER_BY) = 0
            /\ cls.out.group_by_part =
                   IF g = 0 THEN <<>> ELSE MarkersText(g, IF o > g THEN o - 1 ELSE n)
            /\ cls.out.order_by_part = IF o = 0 THEN <<>> ELSE MarkersText(o, n)

\* C18: a second pass over the WHERE segment returns that segment unchanged,
\* with an empty GROUP BY segment and an empty ORDER BY segment.
C18_SecondPassUnchanged ==
    cls.again # NotSeparated =>
        cls.again = [where_part |-> cls.out.where_part,
                     group_by_part |-> <<>>, order_by_part |-> <<>>]

----------------------------------------------------------------------------
(* SpecFormat: format_value applied to bounded values.                     *)

MaxLen == 3

\* the characters of the values: a letter, the quote, a digit, a blank
Alphabet == <<"a", Quote, "1", " ">>

Texts == UNION {[1..n -> Range(Alphabet)] : n \in 0..MaxLen}

\* the words of the boolean defaults in several letter cases, a date, a day
\* that does not exist, and the words float() reads as no number
DefaultWords ==
    {Str("true"), Str("True"), Str("TRUE"), Str("false"), Str("FALSE"),
     Str("si"), Str("Si"), Str("SI"), Str("sI"), Str("no"), Str("NO"), <<"0">>,
     Str("2025-01-01"), Str("2025-02-30"), Str("nan"), Str("-inf")}

\* the five types of TIPO_CHOICES and one that is none of them
TiposDato == {"texto", "numero", "decimal", "fecha", "boolean", "otro"}

NotFormatted == [raised |-> FALSE, val |-> <<"not formatted">>]

FormatInit ==
    /\ \E tipo_dato \in TiposDato, value \in Texts \cup DefaultWords \cup {None} :
        fmt = [tipo_dato |-> tipo_dato, value |-> value, out |-> NotFormatted,
               default |-> NotFormatted]
    /\ bld = Unused
    /\ chk = Unused
    /\ frm = Unused
    /\ cls = Unused
    /\ pag = Unused
    /\ SystemUnused

\* QueryParameter.format_value(value)
FormatValue ==
    /\ fmt.out = NotFormatted
    /\ fmt' = [fmt EXCEPT !.out = format_value(fmt.tipo_dato, fmt.value)]
    /\ UNCHANGED <<bld, chk, frm, cls, pag, system_vars>>

\* QueryParameter.clean() on a parameter whose valor_por_defecto is the value:
\* the default is validated when it is not empty
ValidateDefault ==
    /\ fmt.default = NotFormatted
    /\ fmt.value \notin {None, <<>>}
    /\ fmt' = [fmt EXCEPT !.default = _validar_valor_por_defecto(fmt.tipo_dato, fmt.value)]
    /\ UNCHANGED <<bld, chk, frm, cls, pag, system_vars>>

FormatNext == FormatValue \/ ValidateDefault

SpecFormat == FormatInit /\ [][FormatNext]_vars

----------------------------------------------------------------------------
(* What the claims about format_value speak of.                            *)

\* the value, character by character, with each single quote written twice
Doubled(value) ==
    Concat([k \in 1..Len(value) |-> IF value[k] = Quote THEN <<Quote, Quote>> ELSE <<value[k]>>])

\* the text a literal stands for: without its first and last character, each
\* pair of quotes read from the left as one quote
Unescaped(literal) ==
    replace(SubSeq(literal, 2, Len(literal) - 1), <<Quote, Quote>>, <<Quote>>)

QuotesIn(text) == Cardinality({k \in 1..Len(text) : text[k] = Quote})

\* C19: for a text parameter and a value that is not empty, format_value
\* returns the value between two single quotes with every single quote of the
\* value doubled, and reading the literal back gives the value.
C19_QuotedRoundTrip ==
    (fmt.out # NotFormatted /\ fmt.tipo_dato = "texto" /\ fmt.value \notin {None, <<>>}) =>
        /\ ~fmt.out.raised
        /\ fmt.out.val = <<Quote>> \o Doubled(fmt.value) \o <<Quote>>
        /\ QuotesIn(fmt.out.val) = 2 + 2 * QuotesIn(fmt.value)
        /\ Unescaped(fmt.out.val) = fmt.value

\* C19's case: a text value with a quote between other characters, and one
\* made of quotes only, have been formatted
C19_Witness ==
    /\ fmt.out # NotFormatted
    /\ fmt.tipo_dato = "texto"
    /\ fmt.value \in {<<"a", Quote, "a">>, <<Quote, Quote>>}
    /\ fmt.out.val \in {<<Quote, "a", Quote, Quote, "a", Quote>>,
                        <<Quote, Quote, Quote, Quote, Quote, Quote>>}

\* a number as SQL reads it: digits with at most one point, after an
\* optional minus sign
NumericToken(literal) ==
    LET body == Unsigned(literal)
    IN  /\ \E i \in 1..Len(body) : IsDigit(body[i])
        /\ \A i \in 1..Len(body) : IsDigit(body[i]) \/ body[i] = "."
        /\ Cardinality({i \in 1..Len(body) : body[i] = "."}) <= 1

\* C26: for every type and every value that is not empty, a literal returned
\* by format_value is a bare number, or the value between two single quotes
\* with every single quote of the value doubled.
C26_LiteralNeverTerminated ==
    (fmt.out # NotFormatted /\ fmt.value \notin {None, <<>>} /\ ~fmt.out.raised) =>
        \/ NumericToken(fmt.out.val)
        \/ fmt.out.val = <<Quote>> \o Doubled(fmt.value) \o <<Quote>>

\* a default of letters read as true: true or si in any letter case, or 1
DenotesTrue(value) == lower(strip(value)) \in {Str("true"), <<"1">>, Str("si")}

\* C30: a boolean default that the validation of defaults accepts is
\* formatted to 1 when it reads as true and to 0 when it reads as false.
C30_AcceptedBooleanFormatted ==
    (/\ fmt.tipo_dato = "boolean"
     /\ fmt.default # NotFormatted /\ ~fmt.default.raised
     /\ fmt.out # NotFormatted) =>
        /\ ~fmt.out.raised
        /\ fmt.out.val = IF DenotesTrue(fmt.value) THEN <<"1">> ELSE <<"0">>

----------------------------------------------------------------------------
(* SpecPage: execute_query_with_pagination applied to bounded statements,  *)
(* pages and tables.  Each SQL text records by hand whether the statement  *)
(* has an ORDER BY clause.                                                 *)

MaxPage == 2

MaxRows == 5

PageSizes == {1, 2}

Sql(text, ordered) == [text |-> Str(text), ordered |-> ordered]

SqlsWritten ==
    <<  Sql("SELECT a.N\nFROM T AS a", FALSE),
        Sql("SELECT a.N\nFROM T AS a\nWHERE a.E = 'x'\nORDER BY a.N", TRUE),
        Sql("SELECT a.N\nFROM T AS a\norder by a.N DESC", TRUE),
        Sql("SELECT a.N\nFROM T AS a\nWHERE a.E = 'order by'", FALSE),
        Sql("SELECT a.N\nFROM T AS a\nWHERE a.P > 1 ORDER  BY a.N", TRUE)  >>

PageInit ==
    /\ \E k \in 1..Len(SqlsWritten), page \in 1..MaxPage, page_size \in PageSizes,
          table_rows \in 0..MaxRows :
        pag = [sql        |-> SqlsWritten[k].text,
               ordered    |-> SqlsWritten[k].ordered,
               page       |-> page,
               page_size  |-> page_size,
               table_rows |-> table_rows,   \* the rows the statement selects
               sent       |-> <<>>,
               out        |-> NotRun]
    /\ bld = Unused
    /\ chk = Unused
    /\ frm = Unused
    /\ cls = Unused
    /\ fmt = Unused
    /\ SystemUnused

\* the index at which the last occurrence of the literal p in s starts
LastIndex(s, p) == CHOOSE i \in 1..Len(s) : MatchAt(s, p, i) /\ \A j \in (i + 1)..Len(s) : ~MatchAt(s, p, j)

\* the number written after the last occurrence of the literal p in s
NumberAfter(s, p) ==
    LET i == LastIndex(s, p) + Len(p)
    IN  DigitsToInt(Slice(s, i, SkipDigits(s, i)))

\* the database: the number of rows cursor.fetchall() returns for a statement
\* that ends in OFFSET o ROWS FETCH NEXT f ROWS ONLY, over table_rows rows
fetchall(statement, table_rows) ==
    LET o == NumberAfter(statement, Str("\nOFFSET "))
        f == NumberAfter(statement, Str("\nFETCH NEXT "))
    IN  IF table_rows <= o THEN 0
        ELSE IF table_rows - o < f THEN table_rows - o ELSE f

\* execute_query_with_pagination(sql, page, page_size, timeout)
ExecutePage ==
    /\ pag.out = NotRun
    /\ pag' = [pag EXCEPT
                !.sent = <<set_lock_timeout(SQL_QUERY_TIMEOUT),
                           paginated_sql(pag.sql, pag.page, pag.page_size)>>,
                !.out  = fetched_page(fetchall(paginated_sql(pag.sql, pag.page, pag.page_size),
                                               pag.table_rows),
                                      pag.page_size)]
    /\ UNCHANGED <<bld, chk, frm, cls, fmt, system_vars>>

PageNext == ExecutePage

SpecPage == PageInit /\ [][PageNext]_vars

----------------------------------------------------------------------------
(* What the claims about pagination speak of.                              *)

\* the rows of the page: those from offset + 1 to offset + page_size that exist
RowsOfPage ==
    LET offset == (pag.page - 1) * pag.page_size
    IN  Cardinality({r \in 1..pag.table_rows : r > offset /\ r <= offset + pag.page_size})

\* C21: for page p and page size s the statement sent reads s + 1 rows from
\* offset (p - 1) * s; at most s rows are returned, those of the page;
\* has_next is true exactly when row p * s + 1 exists; and ORDER BY (SELECT
\* NULL) is appended exactly when the SQL given has no ORDER BY clause.
C21_WindowAndOrderBy ==
    pag.out # NotRun =>
        /\ pag.sent[2] = pag.sql
                \o (IF pag.ordered THEN <<>> ELSE Str("\nORDER BY (SELECT NULL)"))
                \o Str("\nOFFSET ") \o IntToDigits((pag.page - 1) * pag.page_size)
                \o Str(" ROWS\nFETCH NEXT ") \o IntToDigits(pag.page_size + 1)
                \o Str(" ROWS ONLY")
        /\ pag.out.data <= pag.page_size
        /\ pag.out.data = RowsOfPage
        /\ pag.out.total_rows = pag.out.data
        /\ pag.out.has_next <=> pag.table_rows >= pag.page * pag.page_size + 1

----------------------------------------------------------------------------
(* Spec: the tables, the views that write them, and execute_query.         *)
(* A form is what a technician or an administrator posts for a definition. *)

MaxQueries == 1

MaxRuns == 1

Form(select_clause, from_clause, where_clause) ==
    [select_clause |-> Str(select_clause),
     from_clause   |-> Str(from_clause),
     where_clause  |-> Str(where_clause)]

Forms ==
    <<  Form("a.Nombre", "FROM T AS a", "a.E = %1 AND a.P > %2"),
        Form(" a.Nombre", "FROM T AS a ", "a.E = %1 ORDER BY a.E"),
        Form("  ", "FROM T AS a", ""),
        Form("a.Nombre", "FROM T AS a", "a.E = %1; DROP TABLE T"),
        Form("a.Nombre", "FROM T AS a", "a.E = %1 SHUTDOWN"),
        Form("a.UpdatedAt", "FROM T AS a", "")  >>

\* forms posted only where the requests are followed: a template that names
\* positions 1 and 3, position 1 twice, and one that names none
MoreForms ==
    <<  Form("a.Nombre", "FROM T AS a", "a.E = %1 AND a.P > %3 AND a.Q = %1"),
        Form("a.Nombre", "FROM T AS a", "a.P > 1")  >>

AllForms == Forms \o MoreForms

\* the positions each form names in its WHERE template, as written above
FormPositions == << {1, 2}, {1}, {}, {1}, {1}, {}, {1, 3}, {} >>

\* request.POST.get(...).strip() of the three clauses
Stripped(form) ==
    [select_clause |-> strip(form.select_clause),
     from_clause   |-> strip(form.from_clause),
     where_clause  |-> strip(form.where_clause)]

\* what the technician posts for the parameters: posicion_where -> fields
ParamForms ==
    <<  (1 :> [tipo_dato |-> "texto", requerido |-> TRUE,
               etiqueta_usuario |-> Str("Estado"), orden |-> 2])
        @@ (2 :> [tipo_dato |-> "decimal", requerido |-> TRUE,
                  etiqueta_usuario |-> Str("Precio"), orden |-> 1]),
        (1 :> [tipo_dato |-> "numero", requerido |-> FALSE,
               etiqueta_usuario |-> Str("Cantidad"), orden |-> 1])
        @@ (2 :> [tipo_dato |-> "texto", requerido |-> FALSE,
                  etiqueta_usuario |-> Str("Nota"), orden |-> 2])  >>

\* parameters posted only where the requests are followed: the label of
\* position 2 is blank
MoreParamForms ==
    <<  (1 :> [tipo_dato |-> "texto", requerido |-> TRUE,
               etiqueta_usuario |-> Str("Estado"), orden |-> 2])
        @@ (2 :> [tipo_dato |-> "decimal", requerido |-> TRUE,
                  etiqueta_usuario |-> Str("  "), orden |-> 1])
        @@ (3 :> [tipo_dato |-> "fecha", requerido |-> FALSE,
                  etiqueta_usuario |-> Str("Desde"), orden |-> 3])  >>

AllParamForms == ParamForms \o MoreParamForms

\* the positions of each posted parameter list that full_clean refuses
BadPositions == << {}, {}, {2} >>

\* what an end user or a technician posts as values: posicion_where -> text
Posts ==
    <<  <<>>,
        (1 :> Str("Activo")),
        (1 :> Str("Activo")) @@ (2 :> Str("100")),
        (1 :> Str("7")) @@ (2 :> <<>>)  >>

Pages == {1, 2}

\* each form as the views and the admin form read it
PostedForms == [f \in 1..Len(AllForms) |-> Stripped(AllForms[f])]

\* validate_full_query of each form as the views call it, and full_clean of it
Validations ==
    [f \in 1..Len(AllForms) |->
        validate_full_query(PostedForms[f].select_clause, PostedForms[f].from_clause,
                            PostedForms[f].where_clause)]

FullCleans == [f \in 1..Len(AllForms) |-> full_clean(PostedForms[f])]

NoRow == <<>>

Without(table, pk) == [k \in DOMAIN table \ {pk} |-> table[k]]

With(table, pk, row) == [k \in DOMAIN table \cup {pk} |-> IF k = pk THEN row ELSE table[k]]

Idle == [pc |-> "idle", run |-> 0]

\* req in a specification that does not follow the requests: it stays as it is
NotFollowed == [view |-> "not followed"]

SysInit ==
    /\ dynamic_queries = NoRow
    /\ query_parameters = NoRow
    /\ query_executions = <<>>
    /\ last_pk = 0
    /\ statements = <<>>
    /\ req = NotFollowed
    /\ seen = NotFollowed
    /\ inv = Idle
    /\ bld = Unused
    /\ chk = Unused
    /\ frm = Unused
    /\ cls = Unused
    /\ fmt = Unused
    /\ pag = Unused

\* QueryParameter.full_clean, as save() calls it: the validators of the fields
\* and clean()
TIPO_CHOICES == {"texto", "numero", "decimal", "fecha", "boolean"}

parameter_full_clean(self) ==
    IF self.tipo_dato \notin TIPO_CHOICES THEN ValidationError("tipo_dato", "")
    ELSE IF self.orden < 0 THEN ValidationError("orden", "")
    ELSE IF strip(self.etiqueta_usuario) = <<>> THEN ValidationError("etiqueta_usuario", "")
    ELSE NoError

\* the fields the views read for position pos: request.POST.get with its defaults
posted_parameter(posted, pos) ==
    IF pos \in DOMAIN posted THEN posted[pos]
    ELSE [tipo_dato |-> "texto", requerido |-> FALSE,
          etiqueta_usuario |-> Str("Parámetro ") \o IntToDigits(pos), orden |-> pos]

\* the loop of _create_parameters and of _update_parameters from the k-th
\* position on: each row is saved in turn, and the first one full_clean
\* refuses raises, the earlier ones having been written
RECURSIVE write_parameters(_, _, _, _)
write_parameters(rows, parameter_positions, posted, k) ==
    IF k > Len(parameter_positions) THEN [raised |-> FALSE, rows |-> rows]
    ELSE LET pos == parameter_positions[k]
         IN  IF parameter_full_clean(posted_parameter(posted, pos)) # NoError
             THEN [raised |-> TRUE, rows |-> rows]
             ELSE write_parameters(With(rows, pos, posted_parameter(posted, pos)),
                                   parameter_positions, posted, k + 1)

\* QueryCreateView._create_parameters
_create_parameters(rows, parameter_positions, posted) ==
    write_parameters(rows, parameter_positions, posted, 1)

\* an update of the parameters that deletes none
_update_parameters_keep(rows, parameter_positions, posted) ==
    write_parameters(rows, parameter_positions, posted, 1)

\* QueryUpdateView._update_parameters: the rows of other positions are
\* deleted, then each position is updated or created
_update_parameters(rows, parameter_positions, posted) ==
    write_parameters([pos \in DOMAIN rows \cap Range(parameter_positions) |-> rows[pos]],
                     parameter_positions, posted, 1)

\* the two tables as a request finds them
Tables == [dynamic_queries |-> dynamic_queries, query_parameters |-> query_parameters]

\* the two tables after the definition and its parameters were written for pk;
\* raised when the save of the definition or of a parameter raised
Written_tables(pk, definition, cleaned, parameters) ==
    IF cleaned # NoError THEN [raised |-> TRUE, tables |-> Tables]
    ELSE [raised |-> parameters.raised,
          tables |-> [dynamic_queries  |-> With(dynamic_queries, pk, definition),
                      query_parameters |-> With(query_parameters, pk, parameters.rows)]]

\* a block that keeps what was written before an exception
atomic_keeps_writes(work) == [saved |-> ~work.raised, tables |-> work.tables]

\* with transaction.atomic(): what the block wrote is kept unless it raised
atomic(work) ==
    IF work.raised THEN [saved |-> FALSE, tables |-> Tables]
    ELSE [saved |-> TRUE, tables |-> work.tables]

\* a view that returns before it writes
Refused == [saved |-> FALSE, tables |-> Tables]

\* the request as req keeps it
Request(view, pk, f, pf, saved) ==
    IF req = NotFollowed THEN req
    ELSE [view |-> view, pk |-> pk, f |-> f, pf |-> pf, before |-> Tables, saved |-> saved]

\* QueryCreateView.post: what it answers and leaves in the tables
QueryCreateView_answer(f, pf, activa) ==
    IF \/ PostedForms[f].select_clause = <<>>
       \/ PostedForms[f].from_clause = <<>>
       \/ ~Validations[f].valid
    THEN Refused
    ELSE atomic(Written_tables(last_pk + 1, PostedForms[f] @@ [activa |-> activa], FullCleans[f],
                               _create_parameters(NoRow, Validations[f].parameter_positions,
                                                  AllParamForms[pf])))

\* the state after a view answered; a request that is refused leaves every
\* table as it is, and is a step only where the requests are followed
Answered(view, pk, f, pf, answer) ==
    /\ req = NotFollowed => answer.saved
    /\ dynamic_queries' = answer.tables.dynamic_queries
    /\ query_parameters' = answer.tables.query_parameters
    /\ last_pk' = IF answer.saved /\ pk > last_pk THEN pk ELSE last_pk
    /\ req' = Request(view, pk, f, pf, answer.saved)
    /\ UNCHANGED <<query_executions, statements, seen, inv, harness_vars>>

\* QueryCreateView.post
QueryCreateView_post(f, pf, activa) ==
    /\ last_pk < MaxQueries
    /\ Answered("create", last_pk + 1, f, pf, QueryCreateView_answer(f, pf, activa))

\* QueryUpdateView.post: what it answers and leaves in the tables
QueryUpdateView_answer(pk, f, pf, activa) ==
    IF ~Validations[f].valid THEN Refused
    ELSE atomic(Written_tables(pk, PostedForms[f] @@ [activa |-> activa], FullCleans[f],
                               _update_parameters(query_parameters[pk],
                                                  Validations[f].parameter_positions,
                                                  AllParamForms[pf])))

\* QueryUpdateView.post, with _update_parameters
QueryUpdateView_post(pk, f, pf, activa) ==
    /\ pk \in DOMAIN dynamic_queries
    /\ Answered("update", pk, f, pf, QueryUpdateView_answer(pk, f, pf, activa))

\* QueryToggleStatusView.post
QueryToggleStatusView_post(pk) ==
    /\ pk \in DOMAIN dynamic_queries
    /\ LET query == [dynamic_queries[pk] EXCEPT !.activa = ~dynamic_queries[pk].activa]
       IN  /\ full_clean(query) = NoError
           /\ dynamic_queries' = With(dynamic_queries, pk, query)
    /\ req' = Request("toggle", pk, 0, 0, TRUE)
    /\ UNCHANGED <<query_parameters, query_executions, last_pk, statements, seen, inv, harness_vars>>

\* a delete that takes the definition only
QueryDeleteView_post_definition_only(pk) ==
    /\ pk \in DOMAIN dynamic_queries
    /\ dynamic_queries' = Without(dynamic_queries, pk)
    /\ req' = Request("delete", pk, 0, 0, TRUE)
    /\ UNCHANGED <<query_parameters, query_executions, last_pk, statements, seen, inv, harness_vars>>

\* QueryDeleteView.post: the parameters and the records go with the definition
QueryDeleteView_post(pk) ==
    /\ pk \in DOMAIN dynamic_queries
    /\ dynamic_queries' = Without(dynamic_queries, pk)
    /\ query_parameters' = Without(query_parameters, pk)
    /\ query_executions' = SelectSeq(query_executions, LAMBDA e : e.query # pk)
    /\ req' = Request("delete", pk, 0, 0, TRUE)
    /\ UNCHANGED <<last_pk, statements, seen, inv, harness_vars>>

\* DynamicQueryAdmin: the add form (pk = 0) and the change form; the form strips
\* its fields and the model is cleaned by the form and again by save()
DynamicQueryAdmin_save(pk, f, activa) ==
    LET posted == PostedForms[f]
        target == IF pk = 0 THEN last_pk + 1 ELSE pk
    IN  /\ IF pk = 0 THEN last_pk < MaxQueries ELSE pk \in DOMAIN dynamic_queries
        /\ FullCleans[f] = NoError
        /\ dynamic_queries' = With(dynamic_queries, target, posted @@ [activa |-> activa])
        /\ query_parameters' =
               IF pk = 0 THEN With(query_parameters, target, NoRow) ELSE query_parameters
        /\ last_pk' = IF pk = 0 THEN target ELSE last_pk
        /\ req' = Request("admin", target, f, 0, TRUE)
        /\ UNCHANGED <<query_executions, statements, seen, inv, harness_vars>>

\* the rows of query_parameters of a definition, as read now
parametros_all(pk) == IF pk \in DOMAIN query_parameters THEN query_parameters[pk] ELSE NoRow

\* the values a view passes on: those posted non-empty for a parameter of the query
posted_values(pk, post) ==
    [pos \in {q \in DOMAIN post \cap DOMAIN parametros_all(pk) : post[q] # <<>>} |-> post[pos]]

\* what the view read when it loaded the definition pk and its parameters; a
\* specification that does not follow the reads keeps seen as it is
Loaded(pk) ==
    IF seen = NotFollowed THEN seen
    ELSE [activa   |-> dynamic_queries[pk].activa,
          entry    |-> parametros_all(pk),
          validate |-> NoRow,
          build    |-> NoRow]

\* query_obj.parametros as a step of the invocation reads it
Read(step) ==
    IF seen = NotFollowed THEN seen
    ELSE [seen EXCEPT ![step] = parametros_all(inv.query_obj.pk)]

\* execute_query up to its try block: the result as first filled in
Entered(caller, pk, post, page, page_size, usuario) ==
    [pc          |-> "validate",
     run         |-> inv.run + 1,
     caller      |-> caller,
     query_obj   |-> [pk |-> pk,
                      select_clause |-> dynamic_queries[pk].select_clause,
                      from_clause   |-> dynamic_queries[pk].from_clause,
                      where_clause  |-> dynamic_queries[pk].where_clause],
     params_dict |-> posted_values(pk, post),
     page        |-> page,
     usuario     |-> usuario,
     result      |-> [success |-> FALSE, error |-> None, sql |-> <<>>, total_rows |-> 0,
                      data |-> 0,    \* the number of rows in result['data']
                      has_next |-> FALSE, page_size |-> page_size],
     steps       |-> <<>>,    \* the steps taken, in order
     required    |-> <<>>,    \* the required parameters validate_parameters read
     validation  |-> [valid |-> TRUE, errors |-> <<>>],   \* what it returned
     raised      |-> FALSE,   \* build_query raised
     execution_result |-> NotCalled,   \* what execute_query_with_pagination returned
     row         |-> NoRow,   \* the row given to crear_log
     written     |-> 0]       \* the rows the table accepted

\* EndUserQueryExecuteView.post: get_object_or_404(DynamicQuery, pk=pk, activa=True)
EndUserQueryExecuteView_post(pk, post, page) ==
    /\ inv.pc \in {"idle", "done"}
    /\ inv.run < MaxRuns
    /\ pk \in DOMAIN dynamic_queries
    /\ dynamic_queries[pk].activa
    /\ inv' = Entered("enduser", pk, post, page, RESULTS_PER_PAGE, "anonymous")
    /\ seen' = Loaded(pk)
    /\ UNCHANGED <<dynamic_queries, query_parameters, query_executions, last_pk, statements,
                   req, harness_vars>>

\* an export view that looks the definition up by its key only
ExportView_post_any(pk, post) ==
    /\ inv.pc \in {"idle", "done"}
    /\ inv.run < MaxRuns
    /\ pk \in DOMAIN dynamic_queries
    /\ inv' = Entered("export", pk, post, 1, MAX_RESULTS_LIMIT, "anonymous")
    /\ seen' = Loaded(pk)
    /\ UNCHANGED <<dynamic_queries, query_parameters, query_executions, last_pk, statements,
                   req, harness_vars>>

\* ExportToExcelView.post and ExportToCSVView.post: get_object_or_404(DynamicQuery,
\* pk=pk, activa=True), then export_to_excel / export_to_csv call execute_query
\* for page 1 of MAX_RESULTS_LIMIT rows
ExportView_post(pk, post) ==
    /\ inv.pc \in {"idle", "done"}
    /\ inv.run < MaxRuns
    /\ pk \in DOMAIN dynamic_queries
    /\ dynamic_queries[pk].activa
    /\ inv' = Entered("export", pk, post, 1, MAX_RESULTS_LIMIT, "anonymous")
    /\ seen' = Loaded(pk)
    /\ UNCHANGED <<dynamic_queries, query_parameters, query_executions, last_pk, statements,
                   req, harness_vars>>

\* QueryTestView.post: execute_test_query, page 1 of 10 rows
QueryTestView_post(pk, post) ==
    /\ inv.pc \in {"idle", "done"}
    /\ inv.run < MaxRuns
    /\ pk \in DOMAIN dynamic_queries
    /\ inv' = Entered("test", pk, post, 1, TEST_PAGE_SIZE, "system")
    /\ seen' = Loaded(pk)
    /\ UNCHANGED <<dynamic_queries, query_parameters, query_executions, last_pk, statements,
                   req, harness_vars>>

\* a return on failure that skips the finally block
ExecValidate_ReturnsUnlogged ==
    /\ inv.pc = "validate"
    /\ seen' = Read("validate")
    /\ LET parametros == parametros_all(inv.query_obj.pk)
           validation == validate_parameters(parametros, inv.params_dict)
       IN  inv' = [inv EXCEPT
                    !.steps = Append(@, "validate"),
                    !.validation = validation,
                    !.result.error = IF validation.valid THEN @
                                     ELSE join(Str("; "), validation.errors),
                    !.pc = IF validation.valid THEN "build" ELSE "done"]
    /\ UNCHANGED <<dynamic_queries, query_parameters, query_executions, last_pk, statements,
                   req, harness_vars>>

\* execute_query, lines 63-67: validate_parameters; on failure return, through finally
ExecValidate ==
    /\ inv.pc = "validate"
    /\ seen' = Read("validate")
    /\ LET parametros == parametros_all(inv.query_obj.pk)
           validation == validate_parameters(parametros, inv.params_dict)
       IN  inv' = [inv EXCEPT
                    !.steps = Append(@, "validate"),
                    !.validation = validation,
                    !.required = [k \in 1..Len(get_required_parameters(parametros)) |->
                                    LET pos == get_required_parameters(parametros)[k]
                                    IN  [posicion_where |-> pos,
                                         etiqueta_usuario |-> parametros[pos].etiqueta_usuario]],
                    !.result.error = IF validation.valid THEN @
                                     ELSE join(Str("; "), validation.errors),
                    !.pc = IF validation.valid THEN "build" ELSE "log"]
    /\ UNCHANGED <<dynamic_queries, query_parameters, query_executions, last_pk, statements,
                   req, harness_vars>>

\* str(e) of the exception format_value lets through
ValueErrorText == Str("ValueError")

\* the invocation after build_query returned sql or raised: lines 70-71, or the
\* except block of lines 94-96; next is the step the invocation takes then
after_build(sql, next) ==
    [inv EXCEPT
        !.steps = Append(@, "build"),
        !.raised = sql.raised,
        !.result.sql = IF sql.raised THEN @ ELSE sql.val,
        !.result.error = IF sql.raised THEN ValueErrorText ELSE @,
        !.pc = IF sql.raised THEN next ELSE "execute"]

\* a build whose exception is ignored
ExecBuild_IgnoresException ==
    /\ inv.pc = "build"
    /\ seen' = Read("build")
    /\ inv' = after_build(build_query(inv.query_obj, parametros_all(inv.query_obj.pk),
                                      inv.params_dict), "execute")
    /\ UNCHANGED <<dynamic_queries, query_parameters, query_executions, last_pk, statements,
                   req, harness_vars>>

\* execute_query, lines 69-71: build_query; an exception goes to except, then finally
ExecBuild ==
    /\ inv.pc = "build"
    /\ seen' = Read("build")
    /\ inv' = after_build(build_query(inv.query_obj, parametros_all(inv.query_obj.pk),
                                      inv.params_dict), "log")
    /\ UNCHANGED <<dynamic_queries, query_parameters, query_executions, last_pk, statements,
                   req, harness_vars>>

\* what the database answers to the paginated statement: an error, or rows,
\* one row or one more than the page holds
Answers ==
    {[error |-> None, more |-> FALSE],
     [error |-> None, more |-> TRUE],
     [error |-> Str("Timeout expired"), more |-> FALSE]}

\* what execute_query_with_pagination returns for an answer of the database:
\* on an exception str(e) as error and the result it started from
execute_query_with_pagination(answer, page_size) ==
    IF answer.error # None THEN [NotCalled EXCEPT !.error = answer.error]
    ELSE fetched_page(IF answer.more THEN page_size + 1 ELSE 1, page_size)

\* the invocation after the executor returned: lines 81-92
after_execute(execution_result) ==
    [inv EXCEPT
        !.steps = Append(@, "execute"),
        !.execution_result = execution_result,
        !.result.success = execution_result.success,
        !.result.data = IF execution_result.success THEN execution_result.data ELSE @,
        !.result.total_rows = IF execution_result.success THEN execution_result.total_rows ELSE @,
        !.result.has_next = IF execution_result.success THEN execution_result.has_next ELSE @,
        !.result.error = IF execution_result.success THEN @ ELSE execution_result.error,
        !.pc = "log"]

\* an invocation that reports every failure of the executor in the same words
ExecCallExecutor_GenericError(answer) ==
    /\ inv.pc = "execute"
    /\ statements' = statements
            \o << [run |-> inv.run, sql |-> set_lock_timeout(SQL_QUERY_TIMEOUT)],
                  [run |-> inv.run,
                   sql |-> paginated_sql(inv.result.sql, inv.page, inv.result.page_size)] >>
    /\ inv' = [after_execute(execute_query_with_pagination(answer, inv.result.page_size))
                EXCEPT !.result.error = IF answer.error = None THEN @
                                        ELSE Str("Error al ejecutar la consulta")]
    /\ UNCHANGED <<dynamic_queries, query_parameters, query_executions, last_pk, req, seen, harness_vars>>

\* execute_query, lines 73-92: execute_query_with_pagination sends SET LOCK_TIMEOUT
\* and the paginated statement, and trims the rows fetched to the page
ExecCallExecutor(answer) ==
    /\ inv.pc = "execute"
    /\ statements' = statements
            \o << [run |-> inv.run, sql |-> set_lock_timeout(SQL_QUERY_TIMEOUT)],
                  [run |-> inv.run,
                   sql |-> paginated_sql(inv.result.sql, inv.page, inv.result.page_size)] >>
    /\ inv' = after_execute(execute_query_with_pagination(answer, inv.result.page_size))
    /\ UNCHANGED <<dynamic_queries, query_parameters, query_executions, last_pk, req, seen, harness_vars>>

\* the row crear_log inserts
crear_log(query_obj, run, usuario, params_dict, result) ==
    [query               |-> query_obj.pk,
     run                 |-> run,
     usuario             |-> usuario,
     parametros_enviados |-> params_dict,
     total_resultados    |-> result.total_rows,
     exitosa             |-> result.success,
     mensaje_error       |-> IF result.error \in {None, <<>>} THEN <<>> ELSE result.error,
     sql_ejecutado       |-> result.sql]

\* execute_query, lines 98-108, and _log_execution: the insert is refused when the
\* definition it refers to is no longer there, and the exception is only logged
ExecLog ==
    /\ inv.pc = "log"
    /\ LET accepted == inv.query_obj.pk \in DOMAIN dynamic_queries
           row      == crear_log(inv.query_obj, inv.run, inv.usuario, inv.params_dict, inv.result)
       IN  /\ query_executions' = IF accepted THEN Append(query_executions, row)
                                  ELSE query_executions
           /\ inv' = [inv EXCEPT
                        !.steps = Append(@, "log"),
                        !.row = row,
                        !.written = IF accepted THEN @ + 1 ELSE @,
                        !.pc = "done"]
    /\ UNCHANGED <<dynamic_queries, query_parameters, last_pk, statements, req, seen, harness_vars>>

Pks == 1..MaxQueries

Init == SysInit

Next ==
    \/ \E f \in 1..Len(Forms), pf \in 1..Len(ParamForms), activa \in BOOLEAN :
            QueryCreateView_post(f, pf, activa)
    \/ \E pk \in Pks, f \in 1..Len(Forms), pf \in 1..Len(ParamForms), activa \in BOOLEAN :
            QueryUpdateView_post(pk, f, pf, activa)
    \/ \E pk \in Pks : QueryToggleStatusView_post(pk)
    \/ \E pk \in Pks : QueryDeleteView_post(pk)
    \/ \E pk \in {0} \cup Pks, f \in 1..Len(Forms), activa \in BOOLEAN :
            DynamicQueryAdmin_save(pk, f, activa)
    \/ \E pk \in Pks, post \in Range(Posts), page \in Pages :
            EndUserQueryExecuteView_post(pk, post, page)
    \/ \E pk \in Pks, post \in Range(Posts) : QueryTestView_post(pk, post)
    \/ \E pk \in Pks, post \in Range(Posts) : ExportView_post(pk, post)
    \/ ExecValidate
    \/ ExecBuild
    \/ \E answer \in Answers : ExecCallExecutor(answer)
    \/ ExecLog

Spec == Init /\ [][Next]_vars
----------------------------------------------------------------------------
(* SpecStore: the views that write definitions, each request followed in   *)
(* req: the view, the form and the parameters posted, the tables as the    *)
(* request found them, and whether the view answered that it saved.        *)

StoreInit ==
    /\ dynamic_queries = NoRow
    /\ query_parameters = NoRow
    /\ query_executions = <<>>
    /\ last_pk = 0
    /\ statements = <<>>
    /\ req = [view |-> "none"]
    /\ seen = NotFollowed
    /\ inv = Idle
    /\ bld = Unused
    /\ chk = Unused
    /\ frm = Unused
    /\ cls = Unused
    /\ fmt = Unused
    /\ pag = Unused

StoreNext ==
    \/ \E f \in 1..Len(AllForms), pf \in 1..Len(AllParamForms), activa \in BOOLEAN :
            QueryCreateView_post(f, pf, activa)
    \/ \E pk \in Pks, f \in 1..Len(AllForms), pf \in 1..Len(AllParamForms), activa \in BOOLEAN :
            QueryUpdateView_post(pk, f, pf, activa)
    \/ \E pk \in Pks : QueryToggleStatusView_post(pk)
    \/ \E pk \in Pks : QueryDeleteView_post(pk)
    \/ \E pk \in {0} \cup Pks, f \in 1..Len(AllForms), activa \in BOOLEAN :
            DynamicQueryAdmin_save(pk, f, activa)

SpecStore == StoreInit /\ [][StoreNext]_vars

----------------------------------------------------------------------------
(* What the claims about the views that write definitions speak of.        *)

\* the last request was a create or an edit through the technician views
CreateOrEdit == req.view \in {"create", "update"}

\* the three fragments of the stored definition pk
Fragments(pk) ==
    [select_clause |-> dynamic_queries[pk].select_clause,
     from_clause   |-> dynamic_queries[pk].from_clause,
     where_clause  |-> dynamic_queries[pk].where_clause]

\* C22: after a create or an edit, either the definition posted is stored
\* together with a parameter for every position of its template, each as it
\* was posted, or the two tables are exactly as the request found them; a
\* request with a parameter that cannot be written leaves them as they were.
C22_AllOrNothing ==
    CreateOrEdit =>
        IF req.saved
        THEN /\ req.pk \in DOMAIN dynamic_queries
             /\ Fragments(req.pk) = PostedForms[req.f]
             /\ DOMAIN query_parameters[req.pk] = FormPositions[req.f]
             /\ \A pos \in FormPositions[req.f] \cap DOMAIN AllParamForms[req.pf] :
                    query_parameters[req.pk][pos] = AllParamForms[req.pf][pos]
             /\ FormPositions[req.f] \cap BadPositions[req.pf] = {}
             /\ \A pk \in DOMAIN req.before.dynamic_queries \ {req.pk} :
                    /\ pk \in DOMAIN dynamic_queries
                    /\ dynamic_queries[pk] = req.before.dynamic_queries[pk]
                    /\ query_parameters[pk] = req.before.query_parameters[pk]
        ELSE Tables = req.before

\* C22's case: an edit whose first parameter could be written and whose second
\* could not, over a definition whose first parameter was another one
C22_Witness ==
    /\ req.view = "update"
    /\ ~req.saved
    /\ FormPositions[req.f] = {1, 2}
    /\ BadPositions[req.pf] = {2}
    /\ Validations[req.f].valid
    /\ 1 \in DOMAIN query_parameters[req.pk]
    /\ query_parameters[req.pk][1] # AllParamForms[req.pf][1]
    /\ Fragments(req.pk) # PostedForms[req.f]
    /\ Tables = req.before

\* the positions written in a stored WHERE template
WrittenPositions(where_clause) ==
    FormPositions[CHOOSE f \in 1..Len(AllForms) : PostedForms[f].where_clause = where_clause]

\* C23: after a create or an edit that the view answered as saved, the
\* positions of the stored parameters of the query are the positions written
\* in its stored WHERE template.
C23_ParametersMatchTemplate ==
    (CreateOrEdit /\ req.saved) =>
        DOMAIN query_parameters[req.pk]
            = WrittenPositions(dynamic_queries[req.pk].where_clause)

\* C23's case: an edit to a template that no longer names a position for
\* which a parameter was stored, and names one for which none was
C23_Witness ==
    /\ req.view = "update"
    /\ req.saved
    /\ 2 \in DOMAIN req.before.query_parameters[req.pk]
    /\ DOMAIN query_parameters[req.pk] = {1, 3}
    /\ WrittenPositions(dynamic_queries[req.pk].where_clause) = {1, 3}

----------------------------------------------------------------------------
(* SpecRace: the views and execute_query as in Spec, over fewer forms and  *)
(* posted values, with what each invocation read from the tables followed  *)
(* in seen.                                                                *)

RaceForms == {1, 2}

RacePosts == {Posts[1], Posts[3]}

RaceInit ==
    /\ dynamic_queries = NoRow
    /\ query_parameters = NoRow
    /\ query_executions = <<>>
    /\ last_pk = 0
    /\ statements = <<>>
    /\ req = NotFollowed
    /\ seen = [activa |-> FALSE, entry |-> NoRow, validate |-> NoRow, build |-> NoRow]
    /\ inv = Idle
    /\ bld = Unused
    /\ chk = Unused
    /\ frm = Unused
    /\ cls = Unused
    /\ fmt = Unused
    /\ pag = Unused

RaceNext ==
    \/ \E f \in RaceForms, pf \in 1..Len(ParamForms), activa \in BOOLEAN :
            QueryCreateView_post(f, pf, activa)
    \/ \E pk \in Pks, f \in RaceForms, pf \in 1..Len(ParamForms), activa \in BOOLEAN :
            QueryUpdateView_post(pk, f, pf, activa)
    \/ \E pk \in Pks : QueryToggleStatusView_post(pk)
    \/ \E pk \in Pks : QueryDeleteView_post(pk)
    \/ \E pk \in Pks, post \in RacePosts : EndUserQueryExecuteView_post(pk, post, 1)
    \/ \E pk \in Pks, post \in RacePosts : QueryTestView_post(pk, post)
    \/ \E pk \in Pks, post \in RacePosts : ExportView_post(pk, post)
    \/ ExecValidate
    \/ ExecBuild
    \/ \E answer \in Answers : ExecCallExecutor(answer)
    \/ ExecLog

SpecRace == RaceInit /\ [][RaceNext]_vars

----------------------------------------------------------------------------
(* What the claims about what an invocation reads speak of.                *)

\* the invocation was started by an end-user view
EndUser == inv.pc # "idle" /\ inv.caller \in {"enduser", "export"}

\* C25: an end-user execute or export request is served only for a
\* definition that was stored as active when the view loaded it; no
\* statement is sent and no record is written outside an invocation that
\* was admitted.
C25_OnlyActiveForEndUsers ==
    /\ EndUser => seen.activa
    /\ inv.pc = "idle" => (statements = <<>> /\ query_executions = <<>>)
    /\ \A k \in 1..Len(statements) : statements[k].run \in 1..inv.run
    /\ \A k \in 1..Len(query_executions) : query_executions[k].run \in 1..inv.run

\* C25's case: a definition created inactive was activated, exported by an
\* end user, and deactivated again
C25_Witness ==
    /\ inv.pc = "done"
    /\ inv.caller = "export"
    /\ inv.written = 1
    /\ seen.activa
    /\ inv.query_obj.pk \in DOMAIN dynamic_queries
    /\ ~dynamic_queries[inv.query_obj.pk].activa

\* build_query reads the parameters: the template has conditions and values
\* were given
BuildReads ==
    /\ "build" \in Range(inv.steps)
    /\ DOMAIN inv.params_dict # {}
    /\ inv.query_obj.where_clause # <<>>

\* C27: the parameters validate_parameters and build_query read are those of
\* the version of the definition whose template the invocation holds: the
\* parameters stored when the view loaded the definition.
C27_SingleVersion ==
    inv.pc # "idle" =>
        /\ "validate" \in Range(inv.steps) => seen.validate = seen.entry
        /\ BuildReads => seen.build = seen.entry

----------------------------------------------------------------------------
(* What the claims about execute_query and the store speak of.             *)

Started == inv.pc # "idle"

Ended == inv.pc = "done"

\* the rows of the table written by the invocation
RecordsOf(run) == SelectSeq(query_executions, LAMBDA e : e.run = run)

\* the statements the invocation sent to the database
StatementsOf(run) == SelectSeq(statements, LAMBDA st : st.run = run)

StillStored == inv.query_obj.pk \in DOMAIN dynamic_queries

\* the required parameters, as validate_parameters read them, for which the
\* values supplied have nothing, None or the empty string
MissingRequired ==
    SelectSeq(inv.required,
              LAMBDA r : \/ r.posicion_where \notin DOMAIN inv.params_dict
                         \/ inv.params_dict[r.posicion_where] \in {None, <<>>})

\* one message for each of them, naming its label, joined by '; '
MissingMessage ==
    join(Str("; "),
         [k \in 1..Len(MissingRequired) |->
            IF MissingRequired[k].posicion_where \notin DOMAIN inv.params_dict
            THEN es_obligatorio(MissingRequired[k].etiqueta_usuario)
            ELSE no_puede_estar_vacio(MissingRequired[k].etiqueta_usuario)])

Paths ==
    {<<"validate", "log">>,
     <<"validate", "build", "log">>,
     <<"validate", "build", "execute", "log">>}

ExecutorFailed == "execute" \in Range(inv.steps) /\ ~inv.execution_result.success

C24_NoOrphans ==
    /\ DOMAIN query_parameters \subseteq DOMAIN dynamic_queries
    /\ \A k \in 1..Len(query_executions) : query_executions[k].query \in DOMAIN dynamic_queries

\* C24's case: a definition with a parameter was executed, its record was
\* written, and the definition has been deleted since
C24_Witness ==
    /\ Ended
    /\ inv.written = 1
    /\ DOMAIN parametros_all(inv.query_obj.pk) = {}
    /\ inv.required # <<>>
    /\ inv.query_obj.pk \notin DOMAIN dynamic_queries
    /\ query_executions = <<>>
    /\ query_parameters = NoRow

\* a denylist keyword is a word of the fragment, in any case
HoldsKeyword(fragment) ==
    \E k \in 1..Len(DANGEROUS_COMMANDS) :
        WordMatches(upper(fragment), Str(DANGEROUS_COMMANDS[k])) # {}

\* C7: every stored definition has a SELECT and a FROM fragment that are not
\* empty, and no fragment of it holds a keyword of the validator's denylist.
C7_StoredDefinitionsSafe ==
    \A pk \in DOMAIN dynamic_queries :
        /\ dynamic_queries[pk].select_clause # <<>>
        /\ dynamic_queries[pk].from_clause # <<>>
        /\ ~HoldsKeyword(dynamic_queries[pk].select_clause)
        /\ ~HoldsKeyword(dynamic_queries[pk].from_clause)
        /\ ~HoldsKeyword(dynamic_queries[pk].where_clause)

\* C10: the SQL of an Execution Record is the SQL statement sent to the
\* database for its execution, character for character, and it is empty only
\* when none was sent.
C10_RecordedSqlIsSentSql ==
    \A k \in 1..Len(query_executions) :
        LET record == query_executions[k]
            sent   == StatementsOf(record.run)
        IN  /\ sent # <<>> => record.sql_ejecutado = sent[Len(sent)].sql
            /\ record.sql_ejecutado = <<>> => sent = <<>>

====
